---- MODULE Spec2Model ----
(***************************************************************************)
(* Model of FactAgent: the structured-output coercion of agent/nodes.py    *)
(* (_extract_json, _repair_json, call_claude_structured), the evidence     *)
(* aggregator of agent/tools.py and the four-stage fact-check workflow as  *)
(* driven by agent/graph.py and by on_message of app.py.                   *)
(*                                                                         *)
(* Text is a sequence of one-character strings.  Field names of the        *)
(* pydantic models are abbreviated to one letter on the wire, fields the   *)
(* workflow never reads are left out, and a confidence is kept in tenths.  *)
(*                                                                         *)
(* Spec        one claim check, on the graph driver or the chat driver     *)
(* SpecCoerce  one call of call_claude_structured, token by token          *)
(* SpecRepair  _repair_json on records damaged by up to MaxDefects defects *)
(* SpecMerge   synthesize_verdict on sub-verdicts and feedback records     *)
(* SpecSearch  search_evidence, query by query                             *)
(* SpecExtract _extract_json on buffers of up to MaxLines lines            *)
(* SpecCalls   the external calls of one claim check, issue to completion  *)
(* SpecReview  collect_human_feedback, prompt by prompt                    *)
(* SpecStore   store_fact_check and find_exact_claim on the table          *)
(* SpecStart   on_message from the message to the first stage              *)
(* SpecLimiter RateLimiter under check, record and reset on two sessions   *)
(***************************************************************************)
EXTENDS Integers, Sequences, FiniteSets, TLC

\* ------------------------------------------------------------------------
\* State
\* ------------------------------------------------------------------------
\* state of the text scenarios (SpecRepair, SpecExtract)
VARIABLES
    base,       \* the valid record the engine meant to send
    buf,        \* the candidate text handed to _repair_json or _extract_json
    role,       \* the role of every character of buf
    kinds,      \* the kinds of defect introduced so far
    ndefects,   \* how many defects were introduced
    rstage,     \* "input", "once" (repaired), "twice" (repaired again);
                \* "buffer", "extracted" for _extract_json
    out1,       \* _repair_json(buf), or _extract_json(buf)
    out2        \* _repair_json(out1)

rvars == <<base, buf, role, kinds, ndefects, rstage, out1, out2>>

\* state of one call of call_claude_structured (SpecCoerce)
VARIABLES
    response_model, \* the expected record shape
    max_retries,    \* the retry budget of this call
    on_token,       \* whether an on_token callback was passed
    script,         \* what the engine sends on the streams opened so far
    attempt,        \* the loop variable of line 266
    cpc,            \* "attempt", "streaming", "returned", "raised"
    messages,       \* "plain" or "intensified": the prompt of this attempt
    accumulated,    \* the text accumulated from the stream
    tpos,           \* tokens of the current stream received so far
    observed,       \* calls of on_token that returned
    calls,          \* streams opened so far
    last_error,     \* the local last_error
    result,         \* the value returned
    raised,         \* the exception raised to the caller
    log             \* outcome and text of every finished attempt

cvars == <<response_model, max_retries, on_token, script, attempt, cpc, messages,
           accumulated, tpos, observed, calls, last_error, result, raised, log>>

\* state of one fact-check run (Spec)
VARIABLES
    path,            \* "graph" or "chat"
    wpc,             \* where the run stands
    claim,           \* state["claim"]
    decomposition,   \* state["decomposition"]
    search_results,  \* state["search_results"]: claim text -> results
    sub_verdicts,    \* state["sub_verdicts"]
    human_feedback,  \* state["human_feedback"]
    final_result,    \* state["final_result"]
    error,           \* state["error"]
    idx,             \* the sub-claim a stage loop stands at
    local_results,   \* the dict retrieve_evidence builds
    local_verdicts,  \* the list evaluate_evidence builds
    api_key_set,     \* whether TAVILY_API_KEY is set
    ran,             \* the stages executed, in order
    engine_calls,    \* token streams opened so far
    search_calls,    \* provider searches issued so far
    decomp_call,     \* how the structured call of Decompose ended
    eval_raised,     \* the sub-claims whose structured call of Evaluate raised
    verdicts_json,   \* the sub-verdicts serialized into the synthesis prompt
    error_messages,  \* error messages shown to the user
    store_calls,     \* calls of store_fact_check
    human_reviewed   \* the human_reviewed argument of store_fact_check

wvars == <<path, wpc, claim, decomposition, search_results, sub_verdicts,
           human_feedback, final_result, error, idx, local_results, local_verdicts,
           api_key_set, ran, engine_calls, search_calls, decomp_call, eval_raised, verdicts_json,
           error_messages, store_calls, human_reviewed>>

\* state of one call of search_evidence (SpecSearch)
VARIABLES
    queries,      \* the queries of the sub-claim
    provider,     \* what the evidence provider answers to each query
    qi,           \* the query the loop of line 46 stands at
    all_results,  \* the local all_results
    seen_urls,    \* the local seen_urls
    spc           \* "loop", "sort", "returned"

svars == <<queries, provider, qi, all_results, seen_urls, spc>>

\* state around the stages: calls in flight (SpecCalls) and the review
\* dialogue of collect_human_feedback (SpecReview)
VARIABLES
    outstanding,         \* the external calls issued and not yet completed
    answers,             \* what the reviewer answered to the prompts of each sub-verdict
    sub_claim_feedback,  \* the local sub_claim_feedback of collect_human_feedback
    fact_checks,                \* the table fact_checks, in the order of insertion
    looked_up,               \* the claim find_exact_claim was last called with
    exact_match,               \* what that call returned
    incoming,                  \* message.content of the message on_message handles
    reuse_action,              \* the answer to the prompt of app.py lines 395-408
    session_counts,            \* RateLimiter._session_counts
    session_last_check,        \* RateLimiter._session_last_check
    clock,                     \* what time.time() returns, in seconds
    last_op                    \* the last operation on the limiter and its answer

\* the table and the last lookup
tvars == <<fact_checks, looked_up, exact_match, incoming, reuse_action>>

\* the rate limiter
lvars == <<session_counts, session_last_check, clock, last_op>>

dvars == <<outstanding, answers, sub_claim_feedback, tvars, lvars>>

vars == <<rvars, cvars, wvars, svars, dvars>>

\* ------------------------------------------------------------------------
\* Characters
\* ------------------------------------------------------------------------
LB == "{"
RB == "}"
LS == "["
RS == "]"
DQ == "\""
SQ == "'"
BS == "\\"
NL == "\n"
CM == ","
CL == ":"
SP == " "
\* the backtick of a code fence, written as a grave-free stand-in
BT == "^"

\* str.strip(), str.lstrip() and the regex class \s, and the WHITESPACE of json
Whitespace == {SP, NL}
Digits == {"0", "1", "2", "3", "4", "5", "6", "7", "8", "9"}
\* characters json accepts after a backslash (\uXXXX aside)
EscapeChars == {DQ, BS, "/", "b", "f", "n", "r", "t"}
\* characters below 0x20, which json rejects inside a string
ControlChars == {NL}

\* ------------------------------------------------------------------------
\* json.loads (called at agent/nodes.py lines 299 and 304): one pass over the
\* text with a stack of the containers being read.
\* Values are tagged: [t |-> "num"|"str"|"arr"|"obj", v |-> ...]; the items of
\* an object are [k |-> key, v |-> value] in the order read.
\* Numbers are unsigned integers; the literals true, false and null and
\* \uXXXX escapes are not modelled.
\* ------------------------------------------------------------------------
NoValue == [t |-> "none", v |-> 0]

ParseFail(i) == [ok |-> FALSE, pos |-> i, val |-> NoValue]

ParseOk(i, val) == [ok |-> TRUE, pos |-> i, val |-> val]

\* A loop over the characters of a text is written as its body, applied to
\* the position p and the loop variables st, and an operator that applies the
\* body to the positions lo..hi in order.  The range is split in halves only
\* to keep the evaluation shallow; a range the loop variable is already past
\* is left alone.

\* the first position from i on that holds no whitespace
RECURSIVE SkipWs(_, _)
SkipWs(s, i) ==
    IF i <= Len(s) /\ s[i] \in Whitespace THEN SkipWs(s, i + 1) ELSE i

Unescape(c) == IF c = "n" THEN NL ELSE c

DigitVal(c) ==
    CASE c = "0" -> 0 [] c = "1" -> 1 [] c = "2" -> 2 [] c = "3" -> 3
      [] c = "4" -> 4 [] c = "5" -> 5 [] c = "6" -> 6 [] c = "7" -> 7
      [] c = "8" -> 8 [] c = "9" -> 9

\* NUMBER_RE, integer part: 0 | [1-9][0-9]*
RECURSIVE ScanDigits(_, _, _)
ScanDigits(s, i, acc) ==
    IF i <= Len(s) /\ s[i] \in Digits
    THEN ScanDigits(s, i + 1, acc * 10 + DigitVal(s[i]))
    ELSE ParseOk(i, [t |-> "num", v |-> acc])

ScanNumber(s, i) ==
    IF s[i] = "0" THEN ParseOk(i + 1, [t |-> "num", v |-> 0])
    ELSE ScanDigits(s, i, 0)

\* a container being read: its kind, its items so far, the key awaiting a value
Frame(kind) == [t |-> kind, items |-> <<>>, key |-> <<>>]

\* the decoder raises JSONDecodeError
ScanFail(st) == [st EXCEPT !.stop = TRUE, !.mode = "error"]

\* the value v, which ends before position next, is complete: it is the
\* document, or the next item of the innermost container
ScanComplete(st, v, next) ==
    IF st.stack = <<>>
    THEN [st EXCEPT !.pos = next, !.mode = "end", !.val = v]
    ELSE [st EXCEPT !.pos = next, !.mode = "after",
                    !.stack[Len(st.stack)].items =
                        Append(@, IF st.stack[Len(st.stack)].t = "arr" THEN v
                                  ELSE [k |-> st.stack[Len(st.stack)].key, v |-> v])]

\* the closer at position p ends the innermost container
ScanClose(st, p) ==
    ScanComplete([st EXCEPT !.stack = SubSeq(@, 1, Len(@) - 1)],
                 [t |-> st.stack[Len(st.stack)].t, v |-> st.stack[Len(st.stack)].items],
                 p + 1)

\* py_scanstring: one character of a string (a key in mode "keystr")
ScanStringChar(s, p, st) ==
    IF s[p] = DQ THEN
        IF st.mode = "keystr"
        THEN [st EXCEPT !.pos = p + 1, !.mode = "colon", !.acc = <<>>,
                        !.stack[Len(st.stack)].key = st.acc]
        ELSE ScanComplete([st EXCEPT !.acc = <<>>], [t |-> "str", v |-> st.acc], p + 1)
    ELSE IF s[p] = BS THEN
        IF p + 1 <= Len(s) /\ s[p + 1] \in EscapeChars
        THEN [st EXCEPT !.pos = p + 2, !.acc = Append(@, Unescape(s[p + 1]))]
        ELSE ScanFail(st)
    ELSE IF s[p] \in ControlChars THEN ScanFail(st)
    ELSE [st EXCEPT !.pos = p + 1, !.acc = Append(@, s[p])]

\* the number read at the start of a value
ScanNumberRead(st, n) == ScanComplete(st, n.val, n.pos)

\* scan_once: the first character of a value; mode "val0" is the position
\* after [ where ] is accepted too
ScanValueStart(s, p, st) ==
    IF s[p] = DQ THEN [st EXCEPT !.pos = p + 1, !.mode = "str", !.acc = <<>>]
    ELSE IF s[p] = LB
    THEN [st EXCEPT !.pos = p + 1, !.mode = "key0", !.stack = Append(@, Frame("obj"))]
    ELSE IF s[p] = LS
    THEN [st EXCEPT !.pos = p + 1, !.mode = "val0", !.stack = Append(@, Frame("arr"))]
    ELSE IF s[p] = RS /\ st.mode = "val0" THEN ScanClose(st, p)
    ELSE IF s[p] \in Digits THEN ScanNumberRead(st, ScanNumber(s, p))
    ELSE ScanFail(st)

\* JSONObject: the quotation mark that opens a key; mode "key0" is the
\* position after { where } is accepted too
ScanKeyStart(s, p, st) ==
    IF s[p] = DQ THEN [st EXCEPT !.pos = p + 1, !.mode = "keystr", !.acc = <<>>]
    ELSE IF s[p] = RB /\ st.mode = "key0" THEN ScanClose(st, p)
    ELSE ScanFail(st)

\* JSONObject and JSONArray: the character after an item
ScanAfterValue(s, p, st) ==
    IF st.stack[Len(st.stack)].t = "arr"
    THEN IF s[p] = CM THEN [st EXCEPT !.pos = p + 1, !.mode = "val"]
         ELSE IF s[p] = RS THEN ScanClose(st, p)
         ELSE ScanFail(st)
    ELSE IF s[p] = CM THEN [st EXCEPT !.pos = p + 1, !.mode = "key"]
         ELSE IF s[p] = RB THEN ScanClose(st, p)
         ELSE ScanFail(st)

\* the decoder at position p; whitespace is skipped between tokens, and
\* anything but whitespace after the document is an error
ScanBody(s, p, st) ==
    IF p < st.pos THEN st
    ELSE IF st.mode \in {"str", "keystr"} THEN ScanStringChar(s, p, st)
    ELSE IF s[p] \in Whitespace THEN [st EXCEPT !.pos = p + 1]
    ELSE IF st.mode \in {"val", "val0"} THEN ScanValueStart(s, p, st)
    ELSE IF st.mode \in {"key", "key0"} THEN ScanKeyStart(s, p, st)
    ELSE IF st.mode = "colon"
    THEN (IF s[p] = CL THEN [st EXCEPT !.pos = p + 1, !.mode = "val"] ELSE ScanFail(st))
    ELSE IF st.mode = "after" THEN ScanAfterValue(s, p, st)
    ELSE ScanFail(st)

RECURSIVE ScanLoop(_, _, _, _)
ScanLoop(s, lo, hi, st) ==
    IF lo > hi \/ st.stop \/ st.pos > hi THEN st
    ELSE IF lo = hi THEN ScanBody(s, lo, st)
    ELSE ScanLoop(s, (lo + hi) \div 2 + 1, hi, ScanLoop(s, lo, (lo + hi) \div 2, st))

ScanResult(s, st) ==
    IF st.mode = "end" THEN ParseOk(Len(s) + 1, st.val) ELSE ParseFail(0)

\* json.loads: JSONDecoder.decode, the whole text must be one value
JsonLoads(s) ==
    ScanResult(s, ScanLoop(s, 1, Len(s),
                  [stop |-> FALSE, pos |-> 1, mode |-> "val", stack |-> <<>>,
                   acc |-> <<>>, val |-> NoValue]))

Parses(s) == JsonLoads(s).ok

\* ------------------------------------------------------------------------
\* _repair_json and its passes (agent/nodes.py)
\* ------------------------------------------------------------------------
\* str.count(c)
Count(s, c) == Cardinality({i \in 1..Len(s) : s[i] = c})

\* str.replace("'", '"')
ReplaceSingleQuotes(s) == [i \in 1..Len(s) |-> IF s[i] = SQ THEN DQ ELSE s[i]]

\* re.sub(r',\s*([}\]])', r'\1', raw): leftmost matches, left to right
\* st.pos is the position after the last match; st.out the text written so far
StripBody(s, p, st) ==
    IF p < st.pos THEN st
    ELSE IF s[p] = CM THEN
        LET j == SkipWs(s, p + 1) IN
        IF j <= Len(s) /\ s[j] \in {RB, RS}
        THEN [st EXCEPT !.pos = j + 1, !.out = Append(@, s[j])]
        ELSE [st EXCEPT !.pos = p + 1, !.out = Append(@, s[p])]
    ELSE [st EXCEPT !.pos = p + 1, !.out = Append(@, s[p])]

RECURSIVE StripLoop(_, _, _, _)
StripLoop(s, lo, hi, st) ==
    IF lo > hi \/ st.pos > hi THEN st
    ELSE IF lo = hi THEN StripBody(s, lo, st)
    ELSE StripLoop(s, (lo + hi) \div 2 + 1, hi, StripLoop(s, lo, (lo + hi) \div 2, st))

StripTrailingCommas(s) == StripLoop(s, 1, Len(s), [pos |-> 1, out |-> <<>>]).out

\* the body of the while loop of _fix_unescaped_quotes at position p; st.i is
\* the loop variable i (i += 2 after a backslash inside a string)
FixQuotesBody(raw, p, st) ==
    IF p < st.i THEN st
    ELSE IF raw[p] = BS /\ st.in_string THEN
        IF p + 1 <= Len(raw)
        THEN [st EXCEPT !.i = p + 2, !.result = @ \o <<raw[p], raw[p + 1]>>]
        ELSE [st EXCEPT !.i = p + 2, !.result = Append(@, raw[p])]
    ELSE IF raw[p] = DQ THEN
        IF ~st.in_string
        THEN [st EXCEPT !.i = p + 1, !.in_string = TRUE, !.result = Append(@, raw[p])]
        ELSE LET r == SkipWs(raw, p + 1) IN
             IF r > Len(raw) \/ raw[r] \in {CM, RB, RS, CL}
             THEN [st EXCEPT !.i = p + 1, !.in_string = FALSE,
                             !.result = Append(@, raw[p])]
             ELSE [st EXCEPT !.i = p + 1, !.result = @ \o <<BS, DQ>>]
    ELSE [st EXCEPT !.i = p + 1, !.result = Append(@, raw[p])]

RECURSIVE FixQuotesLoop(_, _, _, _)
FixQuotesLoop(raw, lo, hi, st) ==
    IF lo > hi \/ st.i > hi THEN st
    ELSE IF lo = hi THEN FixQuotesBody(raw, lo, st)
    ELSE FixQuotesLoop(raw, (lo + hi) \div 2 + 1, hi, FixQuotesLoop(raw, lo, (lo + hi) \div 2, st))

_fix_unescaped_quotes(raw) ==
    FixQuotesLoop(raw, 1, Len(raw), [i |-> 1, in_string |-> FALSE, result |-> <<>>]).result

\* the body of the while loop of _fix_newlines_in_strings at position p; st.i
\* is the loop variable i
FixNewlinesBody(raw, p, st) ==
    IF p < st.i THEN st
    ELSE IF raw[p] = BS /\ st.in_string /\ p + 1 <= Len(raw)
    THEN [st EXCEPT !.i = p + 2, !.result = @ \o <<raw[p], raw[p + 1]>>]
    ELSE IF raw[p] = DQ
    THEN [st EXCEPT !.i = p + 1, !.in_string = ~@, !.result = Append(@, raw[p])]
    ELSE IF raw[p] = NL /\ st.in_string
    THEN [st EXCEPT !.i = p + 1, !.result = @ \o <<BS, "n">>]
    ELSE [st EXCEPT !.i = p + 1, !.result = Append(@, raw[p])]

RECURSIVE FixNewlinesLoop(_, _, _, _)
FixNewlinesLoop(raw, lo, hi, st) ==
    IF lo > hi \/ st.i > hi THEN st
    ELSE IF lo = hi THEN FixNewlinesBody(raw, lo, st)
    ELSE FixNewlinesLoop(raw, (lo + hi) \div 2 + 1, hi, FixNewlinesLoop(raw, lo, (lo + hi) \div 2, st))

_fix_newlines_in_strings(raw) ==
    FixNewlinesLoop(raw, 1, Len(raw), [i |-> 1, in_string |-> FALSE, result |-> <<>>]).result

\* in_str after character j of the bracket loop (step 6 of _repair_json)
BracketInStr(raw, j, in_str) ==
    IF raw[j] = BS /\ in_str THEN in_str
    ELSE IF raw[j] = DQ /\ (j = 1 \/ raw[j - 1] # BS) THEN ~in_str
    ELSE in_str

\* the body of the bracket loop of _repair_json at position j:
\* st.bracket_stack is the stack of closers still owed
BracketBody(raw, j, st) ==
    LET now == BracketInStr(raw, j, st.in_str) IN
    IF (raw[j] = BS /\ st.in_str) \/ now
    THEN [st EXCEPT !.j = j + 1, !.in_str = now]
    ELSE IF raw[j] \in {LB, LS}
    THEN [st EXCEPT !.j = j + 1, !.in_str = now,
                    !.bracket_stack = Append(@, IF raw[j] = LB THEN RB ELSE RS)]
    ELSE IF raw[j] \in {RB, RS} /\ st.bracket_stack # <<>>
    THEN [st EXCEPT !.j = j + 1, !.in_str = now,
                    !.bracket_stack = SubSeq(@, 1, Len(@) - 1)]
    ELSE [st EXCEPT !.j = j + 1, !.in_str = now]

RECURSIVE BracketLoop(_, _, _, _)
BracketLoop(raw, lo, hi, st) ==
    IF lo > hi \/ st.j > hi THEN st
    ELSE IF lo = hi THEN BracketBody(raw, lo, st)
    ELSE BracketLoop(raw, (lo + hi) \div 2 + 1, hi, BracketLoop(raw, lo, (lo + hi) \div 2, st))

BracketStack(raw) ==
    BracketLoop(raw, 1, Len(raw),
                [j |-> 1, in_str |-> FALSE, bracket_stack |-> <<>>]).bracket_stack

Reverse(s) == [i \in 1..Len(s) |-> s[Len(s) + 1 - i]]

\* raw += "".join(reversed(bracket_stack))
CloseBrackets(raw) == raw \o Reverse(BracketStack(raw))

_repair_json(raw) ==
    LET r1 == IF Count(raw, SQ) > Count(raw, DQ) THEN ReplaceSingleQuotes(raw) ELSE raw
        r2 == StripTrailingCommas(r1)
    IN  IF Parses(r2) THEN r2
        ELSE StripTrailingCommas(CloseBrackets(
                 _fix_newlines_in_strings(_fix_unescaped_quotes(r2))))

\* ------------------------------------------------------------------------
\* _extract_json (agent/nodes.py)
\* ------------------------------------------------------------------------
RECURSIVE LStrip(_)
LStrip(s) == IF s # <<>> /\ Head(s) \in Whitespace THEN LStrip(Tail(s)) ELSE s

RECURSIVE RStrip(_)
RStrip(s) ==
    IF s # <<>> /\ s[Len(s)] \in Whitespace THEN RStrip(SubSeq(s, 1, Len(s) - 1)) ELSE s

\* str.strip()
Strip(s) == RStrip(LStrip(s))

\* str.startswith("```")
StartsWithFence(s) == Len(s) >= 3 /\ s[1] = BT /\ s[2] = BT /\ s[3] = BT

\* str.split("\n") at position p: st.cur is the line being read
SplitBody(s, p, st) ==
    IF s[p] = NL THEN [st EXCEPT !.pos = p + 1, !.cur = <<>>, !.lines = Append(@, st.cur)]
    ELSE [st EXCEPT !.pos = p + 1, !.cur = Append(@, s[p])]

RECURSIVE SplitLoop(_, _, _, _)
SplitLoop(s, lo, hi, st) ==
    IF lo > hi \/ st.pos > hi THEN st
    ELSE IF lo = hi THEN SplitBody(s, lo, st)
    ELSE SplitLoop(s, (lo + hi) \div 2 + 1, hi, SplitLoop(s, lo, (lo + hi) \div 2, st))

\* str.split("\n"): the sequence of lines
SplitLines(s) ==
    LET st == SplitLoop(s, 1, Len(s), [pos |-> 1, cur |-> <<>>, lines |-> <<>>])
    IN  Append(st.lines, st.cur)

\* "\n".join(lines)
RECURSIVE JoinLines(_)
JoinLines(lines) ==
    IF lines = <<>> THEN <<>>
    ELSE IF Len(lines) = 1 THEN lines[1]
    ELSE lines[1] \o <<NL>> \o JoinLines(Tail(lines))

\* a fence wrapper that keeps every line of the buffer
KeepAllLines(lines, k, in_block, json_lines) == lines

\* the for loop of _extract_json over the lines
RECURSIVE FenceBody(_, _, _, _)
FenceBody(lines, k, in_block, json_lines) ==
    IF k > Len(lines) THEN json_lines
    ELSE IF StartsWithFence(lines[k]) /\ ~in_block
    THEN FenceBody(lines, k + 1, TRUE, json_lines)
    ELSE IF StartsWithFence(lines[k]) /\ in_block THEN json_lines
    ELSE IF in_block THEN FenceBody(lines, k + 1, in_block, Append(json_lines, lines[k]))
    ELSE FenceBody(lines, k + 1, in_block, json_lines)

_extract_json(raw_text) ==
    LET stripped == Strip(raw_text) IN
    IF StartsWithFence(stripped)
    THEN JoinLines(FenceBody(SplitLines(stripped), 1, FALSE, <<>>))
    ELSE stripped

\* ------------------------------------------------------------------------
\* Buffers handed to _extract_json: lines with and without fences, joined by
\* line breaks, with whitespace around them
\* ------------------------------------------------------------------------
\* bound: lines of one buffer
MaxLines == 4

BufferLines ==
    { <<BT, BT, BT>>, <<BT, BT, BT, "j">>, <<LB, RB>>, <<"1">>, <<>>, <<SP, BT, BT, BT>> }

Margins == { <<>>, <<SP, NL>> }

ExtractBuffers ==
    { lead \o JoinLines(ls) \o trail :
          lead \in Margins, trail \in Margins,
          ls \in UNION { [1..n -> BufferLines] : n \in 1..MaxLines } }

ExtractInit ==
    /\ base \in ExtractBuffers
    /\ buf = base
    /\ role = <<>>
    /\ kinds = {}
    /\ ndefects = 0
    /\ rstage = "buffer"
    /\ out1 = <<>>
    /\ out2 = <<>>

\* line 294 of call_claude_structured: json_text = _extract_json(accumulated)
ExtractCandidate ==
    /\ rstage = "buffer"
    /\ out1' = _extract_json(buf)
    /\ rstage' = "extracted"
    /\ UNCHANGED <<base, buf, role, kinds, ndefects, out2>>
    /\ UNCHANGED <<cvars, wvars, svars, dvars>>

\* ------------------------------------------------------------------------
\* Buffers handed to _repair_json: valid serialized records, damaged the
\* ways a reasoning engine damages them
\* ------------------------------------------------------------------------
\* bound: defects introduced into one record
MaxDefects == 3

Quoted(content) == <<DQ>> \o content \o <<DQ>>

\* contents of string values, as serialized (escapes included)
StrContents ==
    { <<"x">>, <<"x", SP, "y">>, <<LS>>, <<CM, RS>>, <<SQ, SQ, SQ>>, <<"x", BS, BS>> }

Values ==
    { <<"1">>, <<LS, "1", RS>>, <<LB, DQ, "b", DQ, CL, "1", RB>> }
        \cup { Quoted(c) : c \in StrContents }

SecondValues == { <<"1">>, <<LS, "1", RS>> }

BaseRecords ==
    { <<LB, DQ, "a", DQ, CL>> \o v \o <<RB>> : v \in Values }
        \cup { <<LB, DQ, "a", DQ, CL>> \o v \o <<CM, DQ, "b", DQ, CL>> \o w \o <<RB>> :
                   v \in Values, w \in SecondValues }
        \cup { <<LS>> \o v \o <<CM>> \o w \o <<RS>> : v \in Values, w \in SecondValues }

\* index of the quotation mark that closes the string opened before i
RECURSIVE StringEnd(_, _)
StringEnd(s, i) ==
    IF i > Len(s) THEN i
    ELSE IF s[i] = DQ THEN i
    ELSE IF s[i] = BS THEN StringEnd(s, i + 2)
    ELSE StringEnd(s, i + 1)

\* number of consecutive backslashes that end right before position p and
\* start no earlier than position lo
RECURSIVE BackslashRun(_, _, _)
BackslashRun(s, lo, p) ==
    IF p - 1 >= lo /\ s[p - 1] = BS THEN 1 + BackslashRun(s, lo, p - 1) ELSE 0

\* the role of every character of a valid record:
\*   "o" structural, "k" inside a key, "qo"/"qc" the quotation marks opening
\*   and closing a string value, "s" content of a string value, "e" the
\*   second character of an escape pair
\* the roles of the string that opens at position i and closes at e
StringRoles(s, i, e, isKey) ==
    <<IF isKey THEN "o" ELSE "qo">>
        \o [j \in 1..(e - i - 1) |->
               IF isKey THEN "k"
               ELSE IF BackslashRun(s, i + 1, i + j) % 2 = 1 THEN "e"
               ELSE "s"]
        \o <<IF isKey THEN "o" ELSE "qc">>

\* a string is a key if a colon follows it
IsKeyString(s, e) == SkipWs(s, e + 1) <= Len(s) /\ s[SkipWs(s, e + 1)] = CL

StringRolesAt(s, i, e, st) ==
    [st EXCEPT !.pos = e + 1, !.out = @ \o StringRoles(s, i, e, IsKeyString(s, e))]

RoleBody(s, p, st) ==
    IF p < st.pos THEN st
    ELSE IF s[p] = DQ THEN StringRolesAt(s, p, StringEnd(s, p + 1), st)
    ELSE [st EXCEPT !.pos = p + 1, !.out = Append(@, "o")]

RECURSIVE RoleLoop(_, _, _, _)
RoleLoop(s, lo, hi, st) ==
    IF lo > hi \/ st.pos > hi THEN st
    ELSE IF lo = hi THEN RoleBody(s, lo, st)
    ELSE RoleLoop(s, (lo + hi) \div 2 + 1, hi, RoleLoop(s, lo, (lo + hi) \div 2, st))

Roles(s) == RoleLoop(s, 1, Len(s), [pos |-> 1, out |-> <<>>]).out

InsertAt(s, p, c) == SubSeq(s, 1, p - 1) \o <<c>> \o SubSeq(s, p, Len(s))

RepairInit ==
    /\ base \in BaseRecords
    /\ buf = base
    /\ role = Roles(base)
    /\ kinds = {}
    /\ ndefects = 0
    /\ rstage = "input"
    /\ out1 = <<>>
    /\ out2 = <<>>

\* positions inside a string value: before its content or its closing mark
InsideValue(p) == role[p] \in {"s", "qc", "dq", "dn"}

Damage(newbuf, newrole, kind) ==
    /\ rstage = "input"
    /\ ndefects < MaxDefects
    /\ buf' = newbuf
    /\ role' = newrole
    /\ kinds' = kinds \cup {kind}
    /\ ndefects' = ndefects + 1
    /\ UNCHANGED <<base, rstage, out1, out2>>

\* the engine leaves a quotation mark inside a string value unescaped
UnescapedQuote ==
    /\ \E p \in 1..Len(buf) :
           /\ InsideValue(p)
           /\ Damage(InsertAt(buf, p, DQ), InsertAt(role, p, "dq"), "quote")
    /\ UNCHANGED <<cvars, wvars, svars, dvars>>

\* the engine puts a literal line break inside a string value, anywhere in
\* its content
RawNewline ==
    /\ \E p \in 1..Len(buf) :
           /\ (InsideValue(p) \/ role[p] = "e")
           /\ Damage(InsertAt(buf, p, NL), InsertAt(role, p, "dn"), "newline")
    /\ UNCHANGED <<cvars, wvars, svars, dvars>>

\* the engine leaves a comma after the last member, before the closer
TrailingComma ==
    /\ \E p \in 2..Len(buf) :
           /\ role[p] = "o" /\ buf[p] \in {RB, RS}
           /\ role[p - 1] # "dc"
           /\ ~(role[p - 1] = "o" /\ buf[p - 1] \in {LB, LS, CM})
           /\ Damage(InsertAt(buf, p, CM), InsertAt(role, p, "dc"), "comma")
    /\ UNCHANGED <<cvars, wvars, svars, dvars>>

\* the stream ends before a closing brace or bracket was sent
MissingCloser ==
    /\ buf # <<>>
    /\ role[Len(buf)] = "o" /\ buf[Len(buf)] \in {RB, RS}
    /\ Damage(SubSeq(buf, 1, Len(buf) - 1), SubSeq(role, 1, Len(buf) - 1), "closer")
    /\ UNCHANGED <<cvars, wvars, svars, dvars>>

\* the stream is cut by the token budget at any other character
CutOff ==
    /\ Len(buf) > 1
    /\ ~(role[Len(buf)] = "o" /\ buf[Len(buf)] \in {RB, RS})
    /\ Damage(SubSeq(buf, 1, Len(buf) - 1), SubSeq(role, 1, Len(buf) - 1), "cut")
    /\ UNCHANGED <<cvars, wvars, svars, dvars>>

ApplyRepair ==
    /\ rstage = "input"
    /\ out1' = _repair_json(buf)
    /\ rstage' = "once"
    /\ UNCHANGED <<base, buf, role, kinds, ndefects, out2>>
    /\ UNCHANGED <<cvars, wvars, svars, dvars>>

ApplyRepairAgain ==
    /\ rstage = "once"
    /\ out2' = _repair_json(out1)
    /\ rstage' = "twice"
    /\ UNCHANGED <<base, buf, role, kinds, ndefects, out1>>
    /\ UNCHANGED <<cvars, wvars, svars, dvars>>

\* ------------------------------------------------------------------------
\* Properties of _repair_json
\* ------------------------------------------------------------------------
FourClasses == {"quote", "newline", "comma", "closer"}

\* the next character after position p that is not whitespace is one of , } ] :
FollowedByDelimiter(s, p) ==
    LET n == SkipWs(s, p + 1) IN n <= Len(s) /\ s[n] \in {CM, RB, RS, CL}

\* the text a correct repair of buf yields: introduced quotation marks and
\* line breaks escaped, introduced commas dropped, nothing else touched
MendBody(s, p, st) ==
    [st EXCEPT !.pos = p + 1,
               !.out = @ \o (CASE st.role[p] = "dq" -> <<BS, DQ>>
                               [] st.role[p] = "dn" -> <<BS, "n">>
                               [] st.role[p] = "dc" -> <<>>
                               [] OTHER -> <<s[p]>>)]

RECURSIVE MendLoop(_, _, _, _)
MendLoop(s, lo, hi, st) ==
    IF lo > hi \/ st.pos > hi THEN st
    ELSE IF lo = hi THEN MendBody(s, lo, st)
    ELSE MendLoop(s, (lo + hi) \div 2 + 1, hi, MendLoop(s, lo, (lo + hi) \div 2, st))

Mended == MendLoop(buf, 1, Len(buf), [pos |-> 1, role |-> role, out |-> <<>>]).out

\* C5: _repair_json is idempotent: repairing the repaired text changes nothing
C5_RepairIdempotent == rstage = "twice" => out2 = out1

\* C6: a valid record damaged only by defects of the four classes parses
\* after _repair_json
C6_RepairThenParses ==
    (rstage # "input" /\ ndefects >= 1 /\ kinds \subseteq FourClasses) => Parses(out1)

ScenarioCShape ==
    /\ base[1] = LB
    /\ kinds = {"comma", "quote"}
    /\ \A p \in 1..Len(buf) :
           /\ role[p] = "dc" => p = Len(buf) - 1
           /\ role[p] = "dq" => ~FollowedByDelimiter(buf, p)

\* C7: a record with a trailing comma before its closing brace and unescaped
\* quotation marks, none followed by , } ] :, is repaired to the same record
\* with the comma removed and exactly those quotation marks escaped
C7_ScenarioC == (rstage # "input" /\ ScenarioCShape) => out1 = Mended

\* C8: a valid record that only lacks closing braces/brackets at its end gets
\* exactly the missing closers appended, innermost first
C8_ScenarioD == (rstage # "input" /\ kinds = {"closer"}) => out1 = base

\* in_string of _fix_newlines_in_strings after each character of raw: the
\* two characters of an escape pair inside a string are taken together
RECURSIVE NewlineFlags(_, _, _, _)
NewlineFlags(raw, i, in_string, flags) ==
    IF i > Len(raw) THEN flags
    ELSE IF raw[i] = BS /\ in_string /\ i + 1 <= Len(raw)
    THEN NewlineFlags(raw, i + 2, in_string, flags \o <<in_string, in_string>>)
    ELSE IF raw[i] = DQ
    THEN NewlineFlags(raw, i + 1, ~in_string, Append(flags, ~in_string))
    ELSE NewlineFlags(raw, i + 1, in_string, Append(flags, in_string))

NewlineInString(raw) == NewlineFlags(raw, 1, FALSE, <<>>)

\* in_str of the bracket loop of _repair_json after each character of raw
RECURSIVE BracketFlags(_, _, _, _)
BracketFlags(raw, j, in_str, flags) ==
    IF j > Len(raw) THEN flags
    ELSE BracketFlags(raw, j + 1, BracketInStr(raw, j, in_str),
                      Append(flags, BracketInStr(raw, j, in_str)))

BracketInString(raw) == BracketFlags(raw, 1, FALSE, <<>>)

\* the text _repair_json has after step 4, the unescaped-quote pass
AfterQuotePass(raw) ==
    _fix_unescaped_quotes(StripTrailingCommas(
        IF Count(raw, SQ) > Count(raw, DQ) THEN ReplaceSingleQuotes(raw) ELSE raw))

\* C27: on the text the unescaped-quote pass returns, the raw-newline pass
\* and the bracket pass take the same characters to be inside a string, so
\* the bracket pass counts a bracket exactly when the earlier pass saw it
\* outside every string
C27_PassesAgreeOnStrings ==
    rstage # "input" =>
        NewlineInString(AfterQuotePass(buf)) = BracketInString(AfterQuotePass(buf))

\* raw with every line break that lies inside a string (roles k, s and e of
\* Roles) written as the two characters \n, and nothing else changed
RECURSIVE EscapeInStrings(_, _, _)
EscapeInStrings(raw, roles, p) ==
    IF p > Len(raw) THEN <<>>
    ELSE (IF raw[p] = NL /\ roles[p] \in {"k", "s", "e"} THEN <<BS, "n">> ELSE <<raw[p]>>)
             \o EscapeInStrings(raw, roles, p + 1)

\* C28: _fix_newlines_in_strings writes every literal line break inside a
\* string as the escaped newline sequence and copies every other character,
\* line breaks outside strings included, unchanged and in order
C28_NewlinesEscapedInStrings ==
    rstage # "input" =>
        _fix_newlines_in_strings(AfterQuotePass(buf))
            = EscapeInStrings(AfterQuotePass(buf), Roles(AfterQuotePass(buf)), 1)

\* the comma at position p of buf is structural and stands, up to
\* whitespace, directly before a structural closing brace or bracket
StructuralTrailingComma(p) ==
    /\ buf[p] = CM
    /\ role[p] \in {"o", "dc"}
    /\ SkipWs(buf, p + 1) <= Len(buf)
    /\ buf[SkipWs(buf, p + 1)] \in {RB, RS}
    /\ role[SkipWs(buf, p + 1)] = "o"

\* buf without its structural trailing commas and the whitespace after them
RECURSIVE DropStructuralCommas(_)
DropStructuralCommas(p) ==
    IF p > Len(buf) THEN <<>>
    ELSE IF StructuralTrailingComma(p)
    THEN DropStructuralCommas(SkipWs(buf, p + 1))
    ELSE <<buf[p]>> \o DropStructuralCommas(p + 1)

\* C29: the trailing-comma step of _repair_json removes only structural
\* commas that stand, up to whitespace, directly before a closing brace or
\* bracket; the text of string values is left as it was
C29_OnlyStructuralCommas ==
    rstage # "input" => StripTrailingCommas(buf) = DropStructuralCommas(1)

\* ------------------------------------------------------------------------
\* The record shapes of agent/models.py and pydantic's model_validate.
\* Wire names: sub_claims "s", claim "c", search_queries "q", verdict "v",
\* confidence "p", evidence "e", reasoning "r", url "u", overall_verdict "o",
\* summary "y", key_sources "k".  Fields no stage reads are left out.
\* Confidence is counted in tenths (1.0 is 10).
\* ------------------------------------------------------------------------
IsObj(x) == x.t = "obj"
IsArr(x) == x.t = "arr"
IsStr(x) == x.t = "str"
IsNum(x) == x.t = "num"

ObjHas(o, key) == \E i \in 1..Len(o.v) : o.v[i].k = key

\* a dict keeps the value of the last occurrence of a key
ObjGet(o, key) ==
    LET last == CHOOSE i \in 1..Len(o.v) :
                    /\ o.v[i].k = key
                    /\ \A j \in (i + 1)..Len(o.v) : o.v[j].k # key
    IN o.v[last].v

HasStr(o, key) == ObjHas(o, key) /\ IsStr(ObjGet(o, key))
HasArr(o, key) == ObjHas(o, key) /\ IsArr(ObjGet(o, key))

\* class Verdict
VerdictOf(c) ==
    CASE c = <<"t">> -> "true"
      [] c = <<"f">> -> "false"
      [] c = <<"p">> -> "partially_true"
      [] c = <<"m">> -> "misleading"
      [] c = <<"u">> -> "unverifiable"
      [] OTHER -> "invalid"

Verdicts == {"true", "false", "partially_true", "misleading", "unverifiable"}

\* float(...) of a string of digits; pydantic coerces such a string to a float
RECURSIVE DigitsValue(_, _)
DigitsValue(c, acc) ==
    IF c = <<>> THEN acc ELSE DigitsValue(Tail(c), acc * 10 + DigitVal(Head(c)))

IsNumeric(x) ==
    \/ IsNum(x)
    \/ IsStr(x) /\ x.v # <<>> /\ \A i \in 1..Len(x.v) : x.v[i] \in Digits

NumberOf(x) == IF IsNum(x) THEN x.v ELSE DigitsValue(x.v, 0)

\* Field(ge=0.0, le=1.0)
ConfidenceOk(x) == IsNumeric(x) /\ NumberOf(x) >= 0 /\ NumberOf(x) <= 1

\* class Source
SourceOk(x) == IsObj(x) /\ HasStr(x, <<"u">>)
SourceOf(x) == [url |-> ObjGet(x, <<"u">>).v]

\* class SubClaim: search_queries has min_length=1, max_length=3
SubClaimOk(x) ==
    /\ IsObj(x)
    /\ HasStr(x, <<"c">>)
    /\ HasArr(x, <<"q">>)
    /\ LET q == ObjGet(x, <<"q">>).v IN
           /\ Len(q) >= 1 /\ Len(q) <= 3
           /\ \A i \in 1..Len(q) : IsStr(q[i])

SubClaimOf(x) ==
    LET q == ObjGet(x, <<"q">>).v IN
    [claim |-> ObjGet(x, <<"c">>).v,
     search_queries |-> [i \in 1..Len(q) |-> q[i].v]]

\* class ClaimDecomposition: sub_claims has min_length=1, max_length=5
MinSubClaims == 1
MaxSubClaims == 5

\* a list constraint without the minimum
SubClaimCountAtMost(n) == n <= MaxSubClaims

\* sub_claims: min_length=1, max_length=5
SubClaimCountOk(n) == n >= MinSubClaims /\ n <= MaxSubClaims

ClaimDecompositionOk(x) ==
    /\ IsObj(x)
    /\ HasArr(x, <<"s">>)
    /\ LET sc == ObjGet(x, <<"s">>).v IN
           /\ SubClaimCountOk(Len(sc))
           /\ \A i \in 1..Len(sc) : SubClaimOk(sc[i])

ClaimDecompositionOf(x) ==
    LET sc == ObjGet(x, <<"s">>).v IN
    [sub_claims |-> [i \in 1..Len(sc) |-> SubClaimOf(sc[i])]]

\* class SubClaimVerdict
SubClaimVerdictOk(x) ==
    /\ IsObj(x)
    /\ HasStr(x, <<"c">>)
    /\ HasStr(x, <<"v">>) /\ VerdictOf(ObjGet(x, <<"v">>).v) \in Verdicts
    /\ ObjHas(x, <<"p">>) /\ ConfidenceOk(ObjGet(x, <<"p">>))
    /\ HasArr(x, <<"e">>)
    /\ LET e == ObjGet(x, <<"e">>).v IN \A i \in 1..Len(e) : SourceOk(e[i])
    /\ HasStr(x, <<"r">>)

SubClaimVerdictOf(x) ==
    LET e == ObjGet(x, <<"e">>).v IN
    [claim |-> ObjGet(x, <<"c">>).v,
     verdict |-> VerdictOf(ObjGet(x, <<"v">>).v),
     confidence |-> 10 * NumberOf(ObjGet(x, <<"p">>)),
     evidence |-> [i \in 1..Len(e) |-> SourceOf(e[i])],
     reasoning |-> ObjGet(x, <<"r">>).v]

\* class FactCheckResult
FactCheckResultOk(x) ==
    /\ IsObj(x)
    /\ HasStr(x, <<"o">>) /\ VerdictOf(ObjGet(x, <<"o">>).v) \in Verdicts
    /\ ObjHas(x, <<"p">>) /\ ConfidenceOk(ObjGet(x, <<"p">>))
    /\ HasArr(x, <<"v">>)
    /\ LET sv == ObjGet(x, <<"v">>).v IN \A i \in 1..Len(sv) : SubClaimVerdictOk(sv[i])
    /\ HasStr(x, <<"y">>)
    /\ HasArr(x, <<"k">>)
    /\ LET k == ObjGet(x, <<"k">>).v IN \A i \in 1..Len(k) : SourceOk(k[i])

FactCheckResultOf(x) ==
    LET sv == ObjGet(x, <<"v">>).v
        k == ObjGet(x, <<"k">>).v IN
    [overall_verdict |-> VerdictOf(ObjGet(x, <<"o">>).v),
     confidence |-> 10 * NumberOf(ObjGet(x, <<"p">>)),
     sub_verdicts |-> [i \in 1..Len(sv) |-> SubClaimVerdictOf(sv[i])],
     summary |-> ObjGet(x, <<"y">>).v,
     key_sources |-> [i \in 1..Len(k) |-> SourceOf(k[i])]]

ResponseModels == {"ClaimDecomposition", "SubClaimVerdict", "FactCheckResult"}

\* response_model.model_validate(parsed): does it accept
ShapeOk(model, x) ==
    CASE model = "ClaimDecomposition" -> ClaimDecompositionOk(x)
      [] model = "SubClaimVerdict" -> SubClaimVerdictOk(x)
      [] model = "FactCheckResult" -> FactCheckResultOk(x)

\* response_model.model_validate(parsed): the instance
InstanceOf(model, x) ==
    CASE model = "ClaimDecomposition" -> ClaimDecompositionOf(x)
      [] model = "SubClaimVerdict" -> SubClaimVerdictOf(x)
      [] model = "FactCheckResult" -> FactCheckResultOf(x)

\* ------------------------------------------------------------------------
\* call_claude_structured (agent/nodes.py): one attempt, and the retry loop
\* ------------------------------------------------------------------------
\* max_retries: int = 2
DefaultMaxRetries == 2

NoError == [kind |-> "none", has_doc |-> FALSE, doc |-> <<>>]

\* json.JSONDecodeError carries the text it was raised on
JSONDecodeError(doc) == [kind |-> "JSONDecodeError", has_doc |-> TRUE, doc |-> doc]

\* pydantic.ValidationError
ValidationError == [kind |-> "ValidationError", has_doc |-> FALSE, doc |-> <<>>]

\* an exception of client.messages.stream
APIError == [kind |-> "APIError", has_doc |-> FALSE, doc |-> <<>>]

\* an exception raised by the on_token callback
CallbackError == [kind |-> "CallbackError", has_doc |-> FALSE, doc |-> <<>>]

NoResult == [none |-> TRUE]

Failed(e) == [ok |-> FALSE, value |-> NoResult, err |-> e]

Succeeded(v) == [ok |-> TRUE, value |-> v, err |-> NoError]

\* a call that repairs the text whether or not it parses
ParseRepaired(direct, repaired) == JsonLoads(repaired)

\* lines 297-304: the value handed to model_validate, or the parse failure;
\* direct is json.loads(json_text) and repaired is _repair_json(json_text)
ParseCandidate(direct, repaired) ==
    IF direct.ok THEN direct ELSE JsonLoads(repaired)

\* a call that hands the parsed value on without validating it
Unvalidated(model, parsed) == Succeeded(parsed)

\* line 306: model_validate(parsed)
Validated(model, parsed) ==
    IF ShapeOk(model, parsed)
    THEN Succeeded(InstanceOf(model, parsed))
    ELSE Failed(ValidationError)

\* lines 304-309: the parse of the repaired text raises, or the parsed value
\* is validated
Checked(model, parsed, repaired) ==
    IF ~parsed.ok THEN Failed(JSONDecodeError(repaired))
    ELSE Validated(model, parsed.val)

\* lines 297-306: parse, repair if needed, validate
Coerced(model, direct, repaired) ==
    Checked(model, ParseCandidate(direct, repaired), repaired)

\* lines 295-306 on the extracted text
CoerceText(model, json_text) ==
    Coerced(model, JsonLoads(json_text), _repair_json(json_text))

\* lines 294-306: what one attempt makes of the accumulated text
AttemptOutcome(model, text) ==
    CoerceText(model, _extract_json(text))

\* a loop that goes round once more than line 313 allows
RetryOnceMore(att, retries) == att <= retries

\* line 313: if attempt < max_retries: continue
RetryAllowed(att, retries) == att < retries

\* a handler that keeps the first exception instead of the latest
FirstError(previous, e) == IF previous = NoError THEN e ELSE previous

\* line 309: last_error = e
NextLastError(previous, e) == e

RECURSIVE Flatten(_)
Flatten(tokens) ==
    IF tokens = <<>> THEN <<>> ELSE Head(tokens) \o Flatten(Tail(tokens))

\* what the engine sends on one stream: tokens, then the end of the stream
\* or, if fails, an exception of the client
ResponseOutcome(model, resp) ==
    IF resp.fails THEN Failed(APIError)
    ELSE AttemptOutcome(model, Flatten(resp.tokens))

\* lines 264-317 run to completion without an on_token callback, on the
\* responses the engine gives to the first, second, ... stream
RECURSIVE CallFrom(_, _, _, _, _)

\* lines 306-317: attempt att ended with outcome o
AfterAttempt(model, responses, retries, att, previous, o) ==
    IF o.ok THEN [status |-> "returned", value |-> o.value, err |-> NoError,
                  calls |-> att + 1]
    ELSE IF RetryAllowed(att, retries)
    THEN CallFrom(model, responses, retries, att + 1,
                  NextLastError(previous, o.err))
    ELSE [status |-> "raised", value |-> NoResult,
          err |-> NextLastError(previous, o.err), calls |-> att + 1]

CallFrom(model, responses, retries, att, previous) ==
    AfterAttempt(model, responses, retries, att, previous,
                 ResponseOutcome(model, responses[att + 1]))

CallClaudeStructured(model, responses, retries) ==
    CallFrom(model, responses, retries, 0, NoError)

\* ------------------------------------------------------------------------
\* What the reasoning engine streams
\* ------------------------------------------------------------------------
\* {"s":[{"c":"a","q":["k"]}]}: one sub-claim
OkDecompTokens ==
    << <<LB, DQ, "s", DQ, CL, LS, LB, DQ, "c", DQ, CL, DQ, "a", DQ, CM>>,
       <<DQ, "q", DQ, CL, LS, DQ, "k", DQ, RS, RB, RS, RB>> >>

\* {"s":[]}: no sub-claim
EmptyDecompTokens ==
    << <<LB, DQ, "s", DQ, CL, LS, RS, RB>> >>

\* a valid verdict record
OkVerdictTokens ==
    << <<LB, DQ, "c", DQ, CL, DQ, "a", DQ, CM, DQ, "v", DQ, CL, DQ, "t", DQ, CM>>,
       <<DQ, "p", DQ, CL, "1", CM, DQ, "e", DQ, CL, LS, RS, CM, DQ, "r", DQ, CL, DQ, "x", DQ, RB>> >>

\* a verdict record whose confidence is out of range
RangeVerdictTokens ==
    << <<LB, DQ, "c", DQ, CL, DQ, "a", DQ, CM, DQ, "v", DQ, CL, DQ, "t", DQ, CM>>,
       <<DQ, "p", DQ, CL, "7", CM, DQ, "e", DQ, CL, LS, RS, CM, DQ, "r", DQ, CL, DQ, "x", DQ, RB>> >>

\* a verdict record with unescaped quotation marks and a trailing comma
QuotedVerdictTokens ==
    << <<LB, DQ, "c", DQ, CL, DQ, "a", DQ, CM, DQ, "v", DQ, CL, DQ, "f", DQ, CM>>,
       <<DQ, "p", DQ, CL, "0", CM, DQ, "e", DQ, CL, LS, RS, CM, DQ, "r", DQ, CL, DQ, "x", SP, DQ, "y", DQ, SP, "z", DQ, CM, RB>> >>

\* a valid verdict record whose reasoning ends with a comma and a brace
CommaVerdictTokens ==
    << <<LB, DQ, "c", DQ, CL, DQ, "a", DQ, CM, DQ, "v", DQ, CL, DQ, "t", DQ, CM>>,
       <<DQ, "p", DQ, CL, "1", CM, DQ, "e", DQ, CL, LS, RS, CM, DQ, "r", DQ, CL, DQ, "x", CM, RB, DQ, RB>> >>

\* a fenced decomposition that lacks its last closers
FencedDecompTokens ==
    << <<BT, BT, BT, "j", "s", "o", "n", NL>>,
       <<LB, DQ, "s", DQ, CL, LS, LB, DQ, "c", DQ, CL, DQ, "b", DQ, CM, DQ, "q", DQ, CL, LS, DQ, "k", DQ, RS, NL, BT, BT, BT>> >>

\* text that no repair makes parsable
GarbageTokens ==
    << <<LB, DQ, "s", DQ, CL>> >>

\* valid JSON that is not an object
WrongTypeTokens ==
    << <<LS, "1", RS>> >>

\* the tokens sent before the stream breaks
BrokenStreamTokens ==
    << <<LB, DQ, "s", DQ, CL>> >>

Completed(tokens) == [tokens |-> tokens, fails |-> FALSE]

Broken(tokens) == [tokens |-> tokens, fails |-> TRUE]

Responses ==
    { Completed(OkDecompTokens), Completed(EmptyDecompTokens),
      Completed(OkVerdictTokens), Completed(RangeVerdictTokens),
      Completed(QuotedVerdictTokens), Completed(FencedDecompTokens),
      Completed(CommaVerdictTokens),
      Completed(GarbageTokens), Completed(WrongTypeTokens),
      Broken(BrokenStreamTokens) }

\* ------------------------------------------------------------------------
\* call_claude_structured, one suspension point at a time
\* ------------------------------------------------------------------------

CoerceModels == {"ClaimDecomposition", "SubClaimVerdict"}

\* the largest retry budget a caller passes
MaxBudget == 2

\* how often the callback raises during one call, at most
MaxCallbackErrors == 1

CallbackErrors == Cardinality({i \in 1..Len(log) : log[i].err.kind = "CallbackError"})

CoerceInit ==
    /\ response_model \in CoerceModels
    /\ max_retries \in 0..MaxBudget
    /\ on_token \in BOOLEAN
    /\ script = <<>>
    /\ attempt = 0
    /\ cpc = "attempt"
    /\ messages = "plain"
    /\ accumulated = <<>>
    /\ tpos = 0
    /\ observed = 0
    /\ calls = 0
    /\ last_error = NoError
    /\ result = NoResult
    /\ raised = NoError
    /\ log = <<>>

CurrentResponse == script[attempt + 1]

\* lines 269-288: build the messages and open the stream
OpenStream ==
    /\ cpc = "attempt"
    /\ messages' = IF attempt > 0 THEN "intensified" ELSE "plain"
    /\ accumulated' = <<>>
    /\ tpos' = 0
    /\ calls' = calls + 1
    /\ cpc' = "streaming"
    /\ \E resp \in Responses : script' = Append(script, resp)
    /\ UNCHANGED <<response_model, max_retries, on_token, attempt, observed,
                   last_error, result, raised, log>>
    /\ UNCHANGED <<rvars, wvars, svars, dvars>>

\* lines 308-314: the except clause, then the next iteration or line 317
AttemptFails(text, e) ==
    /\ last_error' = NextLastError(last_error, e)
    /\ log' = Append(log, [ok |-> FALSE, err |-> e, text |-> text])
    /\ IF RetryAllowed(attempt, max_retries)
       THEN /\ attempt' = attempt + 1
            /\ cpc' = "attempt"
            /\ raised' = raised
       ELSE /\ attempt' = attempt
            /\ cpc' = "raised"
            /\ raised' = last_error'
    /\ UNCHANGED <<response_model, max_retries, on_token, script, messages, tpos,
                   calls, result>>

\* lines 289-292: a token arrives; on_token, if passed, returns
StreamToken ==
    /\ cpc = "streaming"
    /\ tpos < Len(CurrentResponse.tokens)
    /\ accumulated' = accumulated \o CurrentResponse.tokens[tpos + 1]
    /\ tpos' = tpos + 1
    /\ observed' = IF on_token THEN observed + 1 ELSE observed
    /\ UNCHANGED <<response_model, max_retries, on_token, script, attempt, cpc,
                   messages, calls, last_error, result, raised, log>>
    /\ UNCHANGED <<rvars, wvars, svars, dvars>>

\* lines 289-292: a token arrives and on_token raises
CallbackRaises ==
    /\ cpc = "streaming"
    /\ on_token
    /\ CallbackErrors < MaxCallbackErrors
    /\ tpos < Len(CurrentResponse.tokens)
    /\ accumulated' = accumulated \o CurrentResponse.tokens[tpos + 1]
    /\ observed' = observed
    /\ AttemptFails(accumulated', CallbackError)
    /\ UNCHANGED <<rvars, wvars, svars, dvars>>

\* line 283-289: the stream raises instead of ending
StreamBreaks ==
    /\ cpc = "streaming"
    /\ tpos = Len(CurrentResponse.tokens)
    /\ CurrentResponse.fails
    /\ UNCHANGED <<accumulated, observed>>
    /\ AttemptFails(accumulated, APIError)
    /\ UNCHANGED <<rvars, wvars, svars, dvars>>

\* lines 306-314: the attempt ended with outcome o
AttemptEnds(o) ==
    IF o.ok
    THEN /\ result' = o.value
         /\ cpc' = "returned"
         /\ log' = Append(log, [ok |-> TRUE, err |-> NoError, text |-> accumulated])
         /\ UNCHANGED <<response_model, max_retries, on_token, script, attempt,
                        messages, tpos, calls, last_error, raised>>
    ELSE AttemptFails(accumulated, o.err)

\* lines 294-306: the stream ended; extract, parse, repair, validate
StreamEnds ==
    /\ cpc = "streaming"
    /\ tpos = Len(CurrentResponse.tokens)
    /\ ~CurrentResponse.fails
    /\ UNCHANGED <<accumulated, observed>>
    /\ AttemptEnds(AttemptOutcome(response_model, accumulated))
    /\ UNCHANGED <<rvars, wvars, svars, dvars>>

\* two sub-claims, a and b
TwoDecompTokens ==
    << <<LB, DQ, "s", DQ, CL, LS, LB, DQ, "c", DQ, CL, DQ, "a", DQ, CM, DQ, "q", DQ, CL, LS, DQ, "k", DQ, RS, RB, CM>>,
       <<LB, DQ, "c", DQ, CL, DQ, "b", DQ, CM, DQ, "q", DQ, CL, LS, DQ, "k", DQ, CM, DQ, "m", DQ, RS, RB, RS, RB>> >>

\* two sub-claims with the same claim text
SameDecompTokens ==
    << <<LB, DQ, "s", DQ, CL, LS, LB, DQ, "c", DQ, CL, DQ, "a", DQ, CM, DQ, "q", DQ, CL, LS, DQ, "k", DQ, RS, RB, CM>>,
       <<LB, DQ, "c", DQ, CL, DQ, "a", DQ, CM, DQ, "q", DQ, CL, LS, DQ, "m", DQ, RS, RB, RS, RB>> >>

\* six sub-claims
SixDecompTokens ==
    << <<LB, DQ, "s", DQ, CL, LS, LB, DQ, "c", DQ, CL, DQ, "a", DQ, CM, DQ, "q", DQ, CL, LS, DQ, "k", DQ, RS, RB, CM, LB, DQ, "c", DQ, CL, DQ, "a", DQ, CM, DQ, "q", DQ, CL, LS, DQ, "k", DQ, RS, RB, CM, LB, DQ, "c", DQ, CL, DQ, "a", DQ, CM, DQ, "q", DQ, CL, LS, DQ, "k", DQ, RS, RB, CM>>,
       <<LB, DQ, "c", DQ, CL, DQ, "a", DQ, CM, DQ, "q", DQ, CL, LS, DQ, "k", DQ, RS, RB, CM, LB, DQ, "c", DQ, CL, DQ, "a", DQ, CM, DQ, "q", DQ, CL, LS, DQ, "k", DQ, RS, RB, CM, LB, DQ, "c", DQ, CL, DQ, "a", DQ, CM, DQ, "q", DQ, CL, LS, DQ, "k", DQ, RS, RB, RS, RB>> >>

\* a final result that lists no sub-verdict
OkResultTokens ==
    << <<LB, DQ, "o", DQ, CL, DQ, "t", DQ, CM, DQ, "p", DQ, CL, "1", CM>>,
       <<DQ, "v", DQ, CL, LS, RS, CM, DQ, "y", DQ, CL, DQ, "x", DQ, CM, DQ, "k", DQ, CL, LS, RS, RB>> >>

\* a final result that lists a verdict for a
EchoResultTokens ==
    << <<LB, DQ, "o", DQ, CL, DQ, "f", DQ, CM, DQ, "p", DQ, CL, "1", CM, DQ, "v", DQ, CL, LS>>,
       <<LB, DQ, "c", DQ, CL, DQ, "a", DQ, CM, DQ, "v", DQ, CL, DQ, "t", DQ, CM, DQ, "p", DQ, CL, "1", CM, DQ, "e", DQ, CL, LS, RS, CM, DQ, "r", DQ, CL, DQ, "x", DQ, RB, RS, CM, DQ, "y", DQ, CL, DQ, "x", DQ, CM, DQ, "k", DQ, CL, LS, RS, RB>> >>

DecompResponses ==
    { Completed(OkDecompTokens), Completed(TwoDecompTokens), Completed(SameDecompTokens),
      Completed(EmptyDecompTokens), Completed(SixDecompTokens),
      Completed(FencedDecompTokens), Completed(GarbageTokens), Broken(BrokenStreamTokens) }

VerdictResponses ==
    { Completed(OkVerdictTokens), Completed(QuotedVerdictTokens),
      Completed(RangeVerdictTokens), Completed(GarbageTokens), Broken(BrokenStreamTokens) }

ResultResponses ==
    { Completed(OkResultTokens), Completed(EchoResultTokens),
      Completed(RangeVerdictTokens), Completed(GarbageTokens), Broken(BrokenStreamTokens) }

\* ------------------------------------------------------------------------
\* search_evidence (agent/tools.py)
\* ------------------------------------------------------------------------
\* result.get("content", "")[:500]; content is modelled by its length
ExcerptBudget == 500

Min(a, b) == IF a <= b THEN a ELSE b

ProviderRaises == [raised |-> TRUE, results |-> <<>>]

ProviderReturns(rs) == [raised |-> FALSE, results |-> rs]

Hit(url, title, content, score) ==
    [url |-> url, title |-> title, content |-> content, score |-> score]

\* what the evidence provider answers to one query
ProviderOutcomes ==
    { ProviderRaises,
      ProviderReturns(<<>>),
      ProviderReturns(<<Hit("u1", "t1", 3, 5)>>),
      ProviderReturns(<<Hit("u2", "t2", 600, 7), Hit("u1", "t1b", 3, 9)>>) }

\* an inner loop that never looks at seen_urls
RECURSIVE MergeWithoutSeen(_, _, _, _, _)
MergeWithoutSeen(results, i, query, merged, seen) ==
    IF i > Len(results) THEN [all |-> merged, seen |-> seen]
    ELSE MergeWithoutSeen(results, i + 1, query,
             Append(merged,
                    [url |-> results[i].url,
                     title |-> results[i].title,
                     content |-> Min(results[i].content, ExcerptBudget),
                     score |-> results[i].score,
                     query |-> query]),
             seen \cup {results[i].url})

\* lines 57-67: the inner loop over the results of one query
RECURSIVE MergeResults(_, _, _, _, _)
MergeResults(results, i, query, merged, seen) ==
    IF i > Len(results) THEN [all |-> merged, seen |-> seen]
    ELSE IF results[i].url \notin seen
    THEN MergeResults(results, i + 1, query,
             Append(merged,
                    [url |-> results[i].url,
                     title |-> results[i].title,
                     content |-> Min(results[i].content, ExcerptBudget),
                     score |-> results[i].score,
                     query |-> query]),
             seen \cup {results[i].url})
    ELSE MergeResults(results, i + 1, query, merged, seen)

\* lines 46-71: the loop over the queries; a query that raises is skipped
RECURSIVE QueryLoop(_, _, _, _, _)
QueryLoop(qs, outcomes, i, merged, seen) ==
    IF i > Len(qs) THEN merged
    ELSE IF outcomes[i].raised
    THEN QueryLoop(qs, outcomes, i + 1, merged, seen)
    ELSE LET m == MergeResults(outcomes[i].results, 1, qs[i], merged, seen)
         IN QueryLoop(qs, outcomes, i + 1, m.all, m.seen)

\* list.sort(key=score, reverse=True) is stable: equal scores keep their order
RECURSIVE InsertByScore(_, _, _)
InsertByScore(sorted, r, i) ==
    IF i > Len(sorted) THEN Append(sorted, r)
    ELSE IF sorted[i].score < r.score
    THEN SubSeq(sorted, 1, i - 1) \o <<r>> \o SubSeq(sorted, i, Len(sorted))
    ELSE InsertByScore(sorted, r, i + 1)

\* a function that returns the records in the order they were merged
Unsorted(rs, sorted) == rs

RECURSIVE SortByScore(_, _)
SortByScore(rs, sorted) ==
    IF rs = <<>> THEN sorted
    ELSE SortByScore(Tail(rs), InsertByScore(sorted, Head(rs), 1))

search_evidence(qs, outcomes) ==
    SortByScore(QueryLoop(qs, outcomes, 1, <<>>, {}), <<>>)

\* the longest query list of one call
MaxQueries == 3

QueryNames == <<"q1", "q2", "q3", "q4">>

\* what the provider may answer to one query of a call checked on its own:
\* a URL seen again with another title, two URLs with the same score, and
\* one answer that lists a URL twice
SearchOutcomes ==
    ProviderOutcomes \cup
    { ProviderReturns(<<Hit("u3", "t3", 3, 7)>>),
      ProviderReturns(<<Hit("u1", "t1c", 3, 5), Hit("u1", "t1d", 4, 2)>>) }

\* lines 42-44: the client exists; the locals are empty
SearchInit ==
    /\ \E n \in 1..MaxQueries :
           /\ queries = SubSeq(QueryNames, 1, n)
           /\ provider \in [1..n -> SearchOutcomes]
    /\ qi = 1
    /\ all_results = <<>>
    /\ seen_urls = {}
    /\ spc = "loop"

\* a loop that a failing query ends
QueryFailureEndsLoop ==
    /\ spc = "loop"
    /\ qi <= Len(queries)
    /\ provider[qi].raised
    /\ qi' = Len(queries) + 1
    /\ UNCHANGED <<queries, provider, all_results, seen_urls, spc>>
    /\ UNCHANGED <<rvars, cvars, wvars, dvars>>

\* lines 47-55 and 69-71: client.search raises, the query is skipped
QueryFails ==
    /\ spc = "loop"
    /\ qi <= Len(queries)
    /\ provider[qi].raised
    /\ qi' = qi + 1
    /\ UNCHANGED <<queries, provider, all_results, seen_urls, spc>>
    /\ UNCHANGED <<rvars, cvars, wvars, dvars>>

\* lines 47-67: client.search returns and its results are merged
QueryAnswered ==
    /\ spc = "loop"
    /\ qi <= Len(queries)
    /\ ~provider[qi].raised
    /\ all_results' =
           MergeResults(provider[qi].results, 1, queries[qi], all_results, seen_urls).all
    /\ seen_urls' =
           MergeResults(provider[qi].results, 1, queries[qi], all_results, seen_urls).seen
    /\ qi' = qi + 1
    /\ UNCHANGED <<queries, provider, spc>>
    /\ UNCHANGED <<rvars, cvars, wvars, dvars>>

\* lines 73-77: the sort, and the return
SortResults ==
    /\ spc = "loop"
    /\ qi > Len(queries)
    /\ all_results' = SortByScore(all_results, <<>>)
    /\ spc' = "returned"
    /\ UNCHANGED <<queries, provider, qi, seen_urls>>
    /\ UNCHANGED <<rvars, cvars, wvars, dvars>>

\* ------------------------------------------------------------------------
\* The fact-check workflow: the four nodes of agent/nodes.py, driven by the
\* graph of agent/graph.py ("graph") or by on_message of app.py ("chat")
\* ------------------------------------------------------------------------
None == [none |-> TRUE]
NoMessage == "None"
NoVerdict == "None"
NoComment == "None"

\* the fields of the workflow state
fields == <<claim, decomposition, search_results, sub_verdicts, human_feedback,
            final_result, error>>

NotCalled == [status |-> "none", calls |-> 0]

\* store_fact_check has not been called
NotStored == "not stored"

WorkflowInit ==
    /\ path \in {"graph", "chat"}
    /\ wpc = "decompose"
    /\ claim = "claim"
    /\ decomposition = None
    /\ search_results = <<>>
    /\ sub_verdicts = <<>>
    /\ human_feedback = None
    /\ final_result = None
    /\ error = NoMessage
    /\ idx = 0
    /\ local_results = <<>>
    /\ local_verdicts = <<>>
    /\ api_key_set \in BOOLEAN
    /\ ran = <<>>
    /\ engine_calls = 0
    /\ search_calls = 0
    /\ decomp_call = NotCalled
    /\ eval_raised = {}
    /\ verdicts_json = <<>>
    /\ error_messages = 0
    /\ store_calls = 0
    /\ human_reviewed = NotStored

\* what the engine may send on the streams of one call with the default budget
AttemptScripts(responses) == [1..(1 + DefaultMaxRetries) -> responses]

\* every way such a call can end
CallOutcomes(model, responses) ==
    { CallClaudeStructured(model, rs, DefaultMaxRetries) : rs \in AttemptScripts(responses) }

\* nodes.py lines 366-371, 455-463 and 561-570: the three structured calls
DecomposeCalls == CallOutcomes("ClaimDecomposition", DecompResponses)

EvaluateCalls == CallOutcomes("SubClaimVerdict", VerdictResponses)

SynthesizeCalls == CallOutcomes("FactCheckResult", ResultResponses)

\* graph.py: should_continue_after_decomposition
should_continue_after_decomposition(err, decomp) ==
    IF err # NoMessage THEN "error"
    ELSE IF decomp = None THEN "error"
    ELSE IF decomp.sub_claims = <<>> THEN "error"
    ELSE "continue"

\* graph.py: should_continue_after_evidence
should_continue_after_evidence(err) ==
    IF err # NoMessage THEN "error" ELSE "continue"

\* graph.py: should_continue_after_evaluation
should_continue_after_evaluation(err, verdicts) ==
    IF err # NoMessage THEN "error"
    ELSE IF verdicts = <<>> THEN "error"
    ELSE "continue"

\* a driver that goes on whatever the error field holds
ChatNeverStops(err) == FALSE

\* app.py: if result_state.get("error"): ... return
ChatStops(err) == err # NoMessage

\* where the run goes after a node returned
Route(decision, next) == IF decision = "continue" THEN next ELSE "error"

\* a chat driver that runs the next stage whatever the error field holds
ChatGoesOn(err, next) == next

\* app.py: the next stage, unless the error field is set
ChatRoute(err, next) == IF ChatStops(err) THEN "error" ELSE next

\* a driver that stops without telling the user
ShownNever(err) == error_messages

\* the error message app.py shows when it stops
Shown(err) == IF path = "chat" /\ ChatStops(err) THEN error_messages + 1 ELSE error_messages

\* app.py lines 386-416: the claim was checked before and the user takes the
\* stored result; it is shown and on_message returns
ReuseStored ==
    /\ wpc = "decompose"
    /\ path = "chat"
    /\ wpc' = "reused"
    /\ UNCHANGED <<path, fields, idx, local_results, local_verdicts, api_key_set,
                   ran, engine_calls, search_calls, decomp_call, eval_raised,
                   verdicts_json, error_messages, store_calls, human_reviewed>>
    /\ UNCHANGED <<rvars, cvars, svars, dvars>>

\* nodes.py decompose_claim, and the routing that follows it
Decompose ==
    /\ wpc = "decompose"
    /\ \E r \in DecomposeCalls :
        LET err == IF r.status = "returned" THEN error ELSE "Fehler bei der Zerlegung"
            dec == IF r.status = "returned" THEN r.value ELSE decomposition
        IN  /\ decomposition' = dec
            /\ error' = err
            /\ engine_calls' = engine_calls + r.calls
            /\ decomp_call' = [status |-> r.status, calls |-> r.calls]
            /\ wpc' = IF path = "graph"
                      THEN Route(should_continue_after_decomposition(err, dec), "retrieve")
                      ELSE ChatRoute(err, "retrieve")
            /\ error_messages' = Shown(err)
    /\ ran' = Append(ran, "decompose")
    /\ UNCHANGED <<path, claim, search_results, sub_verdicts, human_feedback,
                   final_result, idx, local_results, local_verdicts, api_key_set,
                   search_calls, eval_raised, verdicts_json, store_calls, human_reviewed>>
    /\ UNCHANGED <<rvars, cvars, svars, dvars>>

\* dict.get(key, [])
Get(d, key) == IF key \in DOMAIN d THEN d[key] ELSE <<>>

\* d[key] = value
Put(d, key, value) ==
    [k \in DOMAIN d \cup {key} |-> IF k = key THEN value ELSE d[k]]

\* nodes.py retrieve_evidence, lines 399-406
RetrieveEnter ==
    /\ wpc = "retrieve"
    /\ ran' = Append(ran, "retrieve")
    /\ IF decomposition = None
       THEN /\ error' = "Keine Zerlegung vorhanden"
            /\ wpc' = IF path = "graph"
                      THEN Route(should_continue_after_evidence(error'), "evaluate")
                      ELSE ChatRoute(error', "evaluate")
            /\ error_messages' = Shown(error')
            /\ UNCHANGED <<idx, local_results>>
       ELSE /\ wpc' = "retrieving"
            /\ idx' = 1
            /\ local_results' = <<>>
            /\ UNCHANGED <<error, error_messages>>
    /\ UNCHANGED <<path, claim, decomposition, search_results, sub_verdicts,
                   human_feedback, final_result, local_verdicts, api_key_set,
                   engine_calls, search_calls, decomp_call, eval_raised, verdicts_json, store_calls, human_reviewed>>
    /\ UNCHANGED <<rvars, cvars, svars, dvars>>

\* nodes.py retrieve_evidence, lines 407-411: search_evidence for one sub-claim
RetrieveStep ==
    /\ wpc = "retrieving"
    /\ idx <= Len(decomposition.sub_claims)
    /\ LET sub_claim == decomposition.sub_claims[idx] IN
       IF ~api_key_set
       THEN \* get_tavily_client raises, nothing catches it
            /\ wpc' = "crashed"
            /\ UNCHANGED <<idx, local_results, search_calls>>
       ELSE \E outcomes \in [1..Len(sub_claim.search_queries) -> ProviderOutcomes] :
            /\ local_results' = Put(local_results, sub_claim.claim,
                                    search_evidence(sub_claim.search_queries, outcomes))
            /\ search_calls' = search_calls + Len(sub_claim.search_queries)
            /\ idx' = idx + 1
            /\ wpc' = wpc
    /\ UNCHANGED <<path, fields, local_verdicts, api_key_set, ran, engine_calls,
                   decomp_call, eval_raised, verdicts_json, error_messages, store_calls, human_reviewed>>
    /\ UNCHANGED <<rvars, cvars, svars, dvars>>

\* nodes.py retrieve_evidence, line 413, and the routing that follows it
RetrieveReturn ==
    /\ wpc = "retrieving"
    /\ idx > Len(decomposition.sub_claims)
    /\ search_results' = local_results
    /\ wpc' = IF path = "graph"
              THEN Route(should_continue_after_evidence(error), "evaluate")
              ELSE ChatRoute(error, "evaluate")
    /\ error_messages' = Shown(error)
    /\ UNCHANGED <<path, claim, decomposition, sub_verdicts, human_feedback,
                   final_result, error, idx, local_results, local_verdicts,
                   api_key_set, ran, engine_calls, search_calls, decomp_call, eval_raised, verdicts_json,
                   store_calls, human_reviewed>>
    /\ UNCHANGED <<rvars, cvars, svars, dvars>>

\* nodes.py evaluate_evidence, lines 427-433
EvaluateEnter ==
    /\ wpc = "evaluate"
    /\ ran' = Append(ran, "evaluate")
    /\ IF decomposition = None
       THEN /\ error' = "Keine Zerlegung vorhanden"
            /\ wpc' = IF path = "graph"
                      THEN Route(should_continue_after_evaluation(error', sub_verdicts),
                                 "synthesize")
                      ELSE ChatRoute(error', "review")
            /\ error_messages' = Shown(error')
            /\ UNCHANGED <<idx, local_verdicts>>
       ELSE /\ wpc' = "evaluating"
            /\ idx' = 1
            /\ local_verdicts' = <<>>
            /\ UNCHANGED <<error, error_messages>>
    /\ UNCHANGED <<path, claim, decomposition, search_results, sub_verdicts,
                   human_feedback, final_result, local_results, api_key_set,
                   engine_calls, search_calls, decomp_call, eval_raised, verdicts_json, store_calls, human_reviewed>>
    /\ UNCHANGED <<rvars, cvars, svars, dvars>>

\* a stage that guesses a verdict when it has no evidence
GuessedVerdict(claim_text) ==
    [claim |-> claim_text,
     verdict |-> "true",
     confidence |-> 5,
     evidence |-> <<>>,
     reasoning |-> <<"Keine relevanten Quellen gefunden.">>]

\* lines 443-449: the verdict of a sub-claim without evidence
NoSourcesVerdict(claim_text) ==
    [claim |-> claim_text,
     verdict |-> "unverifiable",
     confidence |-> 1,
     evidence |-> <<>>,
     reasoning |-> <<"Keine relevanten Quellen gefunden.">>]

\* a stage that drops the exception text of a failed evaluation
FailedWithoutText(claim_text, e) ==
    [claim |-> claim_text,
     verdict |-> "unverifiable",
     confidence |-> 0,
     evidence |-> <<>>,
     reasoning |-> <<"Bewertung fehlgeschlagen: ">>]

\* lines 471-477: the verdict of a sub-claim whose evaluation failed
FailedVerdict(claim_text, e) ==
    [claim |-> claim_text,
     verdict |-> "unverifiable",
     confidence |-> 0,
     evidence |-> <<>>,
     reasoning |-> <<"Bewertung fehlgeschlagen: ", e.kind>>]

\* a stage that passes over a sub-claim without evidence
EvaluateSkipsUnsourced ==
    /\ wpc = "evaluating"
    /\ idx <= Len(decomposition.sub_claims)
    /\ LET claim_text == decomposition.sub_claims[idx].claim
           results == Get(search_results, claim_text) IN
       IF results = <<>>
       THEN /\ local_verdicts' = local_verdicts
            /\ engine_calls' = engine_calls
            /\ eval_raised' = eval_raised
       ELSE \E r \in EvaluateCalls :
                /\ local_verdicts' =
                       Append(local_verdicts,
                              IF r.status = "returned" THEN r.value
                              ELSE FailedVerdict(claim_text, r.err))
                /\ engine_calls' = engine_calls + r.calls
                /\ eval_raised' = IF r.status = "returned" THEN eval_raised
                                  ELSE eval_raised \cup {idx}
    /\ idx' = idx + 1
    /\ UNCHANGED <<path, fields, wpc, local_results, api_key_set, ran, search_calls,
                   decomp_call, verdicts_json, error_messages, store_calls, human_reviewed>>
    /\ UNCHANGED <<rvars, cvars, svars, dvars>>

\* nodes.py evaluate_evidence, lines 435-477: one sub-claim
EvaluateStep ==
    /\ wpc = "evaluating"
    /\ idx <= Len(decomposition.sub_claims)
    /\ LET claim_text == decomposition.sub_claims[idx].claim
           results == Get(search_results, claim_text) IN
       IF results = <<>>
       THEN /\ local_verdicts' = Append(local_verdicts, NoSourcesVerdict(claim_text))
            /\ engine_calls' = engine_calls
            /\ eval_raised' = eval_raised
       ELSE \E r \in EvaluateCalls :
                /\ local_verdicts' =
                       Append(local_verdicts,
                              IF r.status = "returned" THEN r.value
                              ELSE FailedVerdict(claim_text, r.err))
                /\ engine_calls' = engine_calls + r.calls
                /\ eval_raised' = IF r.status = "returned" THEN eval_raised
                                  ELSE eval_raised \cup {idx}
    /\ idx' = idx + 1
    /\ UNCHANGED <<path, fields, wpc, local_results, api_key_set, ran, search_calls,
                   decomp_call, verdicts_json, error_messages, store_calls, human_reviewed>>
    /\ UNCHANGED <<rvars, cvars, svars, dvars>>

\* nodes.py evaluate_evidence, line 479, and the routing that follows it
EvaluateReturn ==
    /\ wpc = "evaluating"
    /\ idx > Len(decomposition.sub_claims)
    /\ sub_verdicts' = local_verdicts
    /\ wpc' = IF path = "graph"
              THEN Route(should_continue_after_evaluation(error, sub_verdicts'),
                         "synthesize")
              ELSE ChatRoute(error, "review")
    /\ error_messages' = Shown(error)
    /\ UNCHANGED <<path, claim, decomposition, search_results, human_feedback,
                   final_result, error, idx, local_results, local_verdicts,
                   api_key_set, ran, engine_calls, search_calls, decomp_call, eval_raised, verdicts_json,
                   store_calls, human_reviewed>>
    /\ UNCHANGED <<rvars, cvars, svars, dvars>>

\* class SubClaimFeedback
Feedback(claim_text, corrected, comment) ==
    [claim |-> claim_text, corrected_verdict |-> corrected, user_comment |-> comment]

\* class HumanFeedback
NotReviewed ==
    [reviewed |-> FALSE, sub_claim_feedback |-> <<>>, general_comment |-> NoComment]

\* what a reviewer may answer for one sub-verdict
CorrectionChoices == {NoVerdict, "false"}
CommentChoices == {NoComment, "ctx"}

\* app.py lines 502-548: the reviewer declines or does not answer
ReviewDeclined ==
    /\ wpc = "review"
    /\ human_feedback' = NotReviewed
    /\ wpc' = "synthesize"
    /\ UNCHANGED <<path, claim, decomposition, search_results, sub_verdicts,
                   final_result, error, idx, local_results, local_verdicts,
                   api_key_set, ran, engine_calls, search_calls, decomp_call, eval_raised, verdicts_json,
                   error_messages, store_calls, human_reviewed>>
    /\ UNCHANGED <<rvars, cvars, svars, dvars>>

\* app.py lines 526-548 and collect_human_feedback: one entry per sub-verdict
ReviewCollected ==
    /\ wpc = "review"
    /\ \E corrected \in [1..Len(sub_verdicts) -> CorrectionChoices],
          comment \in [1..Len(sub_verdicts) -> CommentChoices],
          general \in CommentChoices :
         human_feedback' =
             [reviewed |-> TRUE,
              sub_claim_feedback |->
                  [i \in 1..Len(sub_verdicts) |->
                      Feedback(sub_verdicts[i].claim, corrected[i], comment[i])],
              general_comment |-> general]
    /\ wpc' = "synthesize"
    /\ UNCHANGED <<path, claim, decomposition, search_results, sub_verdicts,
                   final_result, error, idx, local_results, local_verdicts,
                   api_key_set, ran, engine_calls, search_calls, decomp_call, eval_raised, verdicts_json,
                   error_messages, store_calls, human_reviewed>>
    /\ UNCHANGED <<rvars, cvars, svars, dvars>>

\* a merge that applies a correction without comparing the claim texts
ApplyToAll(verdicts, fb) ==
    [i \in 1..Len(verdicts) |-> [verdicts[i] EXCEPT !.verdict = fb.corrected_verdict]]

\* lines 540-548: one correction applied to every sub-verdict it names
ApplyCorrection(verdicts, fb) ==
    [i \in 1..Len(verdicts) |->
        IF verdicts[i].claim = fb.claim
        THEN [verdicts[i] EXCEPT
                 !.verdict = fb.corrected_verdict,
                 !.reasoning = IF fb.user_comment # NoComment
                               THEN @ \o <<" [User-Korrektur: ", fb.user_comment, "]">>
                               ELSE @]
        ELSE verdicts[i]]

\* lines 537-548: the loop over the feedback entries
RECURSIVE ApplyCorrections(_, _, _)
ApplyCorrections(verdicts, entries, i) ==
    IF i > Len(entries) THEN verdicts
    ELSE IF entries[i].corrected_verdict # NoVerdict
    THEN ApplyCorrections(ApplyCorrection(verdicts, entries[i]), entries, i + 1)
    ELSE ApplyCorrections(verdicts, entries, i + 1)

\* a merge that does not look at the reviewed flag
MergeUnreviewed(verdicts, feedback) ==
    IF feedback # None
    THEN ApplyCorrections(verdicts, feedback.sub_claim_feedback, 1)
    ELSE verdicts

\* lines 534-548: the merge of the human feedback into the sub-verdicts
MergeFeedback(verdicts, feedback) ==
    IF feedback # None /\ feedback.reviewed
    THEN ApplyCorrections(verdicts, feedback.sub_claim_feedback, 1)
    ELSE verdicts

\* line 553: SubClaimVerdict.model_dump(), the fields in their declared order
model_dump(v) ==
    << <<"claim", v.claim>>, <<"verdict", v.verdict>>, <<"confidence", v.confidence>>,
       <<"evidence", v.evidence>>, <<"reasoning", v.reasoning>> >>

\* nodes.py synthesize_verdict, and what follows it in graph.py and app.py
Synthesize ==
    /\ wpc = "synthesize"
    /\ ran' = Append(ran, "synthesize")
    /\ IF sub_verdicts = <<>>
       THEN /\ error' = "Keine Einzelbewertungen vorhanden"
            /\ UNCHANGED <<sub_verdicts, final_result, engine_calls, verdicts_json>>
       ELSE /\ sub_verdicts' = MergeFeedback(sub_verdicts, human_feedback)
            /\ verdicts_json' = [i \in 1..Len(sub_verdicts') |-> model_dump(sub_verdicts'[i])]
            /\ \E r \in SynthesizeCalls :
               /\ engine_calls' = engine_calls + r.calls
               /\ IF r.status = "returned"
                  THEN final_result' = r.value /\ error' = error
                  ELSE final_result' = final_result
                       /\ error' = "Fehler bei der Zusammenfassung"
    /\ wpc' = IF path = "graph"
              THEN (IF error' # NoMessage THEN "error" ELSE "done")
              ELSE ChatRoute(error', "summary")
    /\ error_messages' = Shown(error')
    /\ UNCHANGED <<path, claim, decomposition, search_results, human_feedback, idx,
                   local_results, local_verdicts, api_key_set, search_calls,
                   decomp_call, eval_raised, store_calls, human_reviewed>>
    /\ UNCHANGED <<rvars, cvars, svars, dvars>>

\* app.py lines 615-625: the summary is streamed by stream_claude_text
StreamSummary ==
    /\ wpc = "summary"
    /\ engine_calls' = engine_calls + 1
    /\ wpc' \in {"store", "crashed"}
    /\ UNCHANGED <<path, fields, idx, local_results, local_verdicts, api_key_set,
                   ran, search_calls, decomp_call, eval_raised, verdicts_json, error_messages, store_calls, human_reviewed>>
    /\ UNCHANGED <<rvars, cvars, svars, dvars>>

\* a store that always records the check as not reviewed
StoreUnreviewed ==
    /\ wpc = "store"
    /\ store_calls' = store_calls + 1
    /\ human_reviewed' = FALSE
    /\ wpc' = "done"
    /\ UNCHANGED <<path, fields, idx, local_results, local_verdicts, api_key_set,
                   ran, engine_calls, search_calls, decomp_call, eval_raised, verdicts_json, error_messages>>
    /\ UNCHANGED <<rvars, cvars, svars, dvars>>

\* app.py lines 628-641: store_fact_check; a failure to store is caught
StoreResult ==
    /\ wpc = "store"
    /\ store_calls' = store_calls + 1
    /\ human_reviewed' = human_feedback.reviewed
    /\ wpc' = "done"
    /\ UNCHANGED <<path, fields, idx, local_results, local_verdicts, api_key_set,
                   ran, engine_calls, search_calls, decomp_call, eval_raised, verdicts_json, error_messages>>
    /\ UNCHANGED <<rvars, cvars, svars, dvars>>

\* ------------------------------------------------------------------------
\* Properties of the workflow (Spec)
\* ------------------------------------------------------------------------
StageOrder == <<"decompose", "retrieve", "evaluate", "synthesize">>

Stages(r) == {r[i] : i \in 1..Len(r)}

\* C1: the stages run in the order Decompose, Retrieve, Evaluate, Synthesize,
\* each at most once, and once the error field is set no further stage runs
\* and no further engine or provider call is made
C1_StagesInOrderErrorAbsorbing ==
    /\ [](Len(ran) <= Len(StageOrder) /\ ran = SubSeq(StageOrder, 1, Len(ran)))
    /\ [][error # NoMessage =>
             /\ ran' = ran
             /\ engine_calls' = engine_calls
             /\ search_calls' = search_calls]_vars

\* Decompose used up its three streams, recorded an error, and the run stopped
C1_ErrorAfterDecompose ==
    /\ wpc = "error"
    /\ error # NoMessage
    /\ ran = <<"decompose">>
    /\ engine_calls = 1 + DefaultMaxRetries

\* the Decompose call when the engine sends a record without sub-claims on
\* every stream
EmptyRecordCalls == CallOutcomes("ClaimDecomposition", {Completed(EmptyDecompTokens)})

\* C10: Retrieve runs only on a decomposition of 1 to 5 sub-claims; when the
\* Decompose call raised (a record without sub-claims never validates, so
\* three such records make it raise) the error field is set, the run is in
\* Error and Retrieve has not run
C10_RetrieveNeedsSubClaims ==
    /\ "retrieve" \in Stages(ran) =>
          /\ decomposition # None
          /\ Len(decomposition.sub_claims) >= 1
          /\ Len(decomposition.sub_claims) <= 5
    /\ decomp_call.status = "raised" =>
          /\ error # NoMessage
          /\ wpc = "error"
          /\ "retrieve" \notin Stages(ran)
    /\ \A r \in EmptyRecordCalls : r.status = "raised"

\* the Decompose call of a graph run raised after three streams
C10_DecomposeRaised ==
    /\ path = "graph"
    /\ decomp_call = [status |-> "raised", calls |-> 1 + DefaultMaxRetries]
    /\ wpc = "error"
    /\ error = "Fehler bei der Zerlegung"

\* C11: once Retrieve has started on a decomposition it neither raises nor
\* sets the error field, and the run proceeds to Evaluate
C11_RetrieveCannotFail ==
    (ran = <<"decompose", "retrieve">> /\ decomposition # None) =>
        /\ wpc \in {"retrieving", "evaluate"}
        /\ error = NoMessage

\* the sub-claim Evaluate stands at, and the evidence it looks up for it
CurrentClaim == decomposition.sub_claims[idx].claim

CurrentEvidence == Get(search_results, CurrentClaim)

EvaluatesOne ==
    /\ wpc = "evaluating"
    /\ idx <= Len(decomposition.sub_claims)
    /\ idx' = idx + 1

\* C12: a sub-claim whose evidence list is empty or missing gets the verdict
\* unverifiable with confidence at most 0.1 and no sources, and no engine call
\* is made for it
C12_NoEvidenceNoCall ==
    [][(EvaluatesOne /\ CurrentEvidence = <<>>) =>
           /\ engine_calls' = engine_calls
           /\ Len(local_verdicts') = Len(local_verdicts) + 1
           /\ local_verdicts'[idx].claim = CurrentClaim
           /\ local_verdicts'[idx].verdict = "unverifiable"
           /\ local_verdicts'[idx].confidence <= 1
           /\ local_verdicts'[idx].evidence = <<>>]_vars

\* the first of two sub-claims was evaluated without evidence and without a call
C12_FirstWithoutEvidence ==
    /\ wpc = "evaluating"
    /\ idx = 2
    /\ Len(decomposition.sub_claims) = 2
    /\ Get(search_results, decomposition.sub_claims[1].claim) = <<>>
    /\ local_verdicts[1].verdict = "unverifiable"
    /\ engine_calls = decomp_call.calls

\* the kinds of exception a structured call can raise
RaisedKinds == {"JSONDecodeError", "ValidationError", "APIError", "CallbackError"}

\* Evaluate was the last stage to run and has returned
EvaluateHasReturned == ran # <<>> /\ ran[Len(ran)] = "evaluate" /\ wpc # "evaluating"

\* C13: a sub-claim whose structured call raised in Evaluate gets a verdict
\* "unverifiable" with confidence 0, no evidence and a justification that ends
\* with the error text; Evaluate leaves the error field unset and returns one
\* verdict per sub-claim
C13_FailedCallIsAbsorbed ==
    eval_raised # {} =>
        /\ \A i \in eval_raised :
               /\ i \in 1..Len(local_verdicts)
               /\ local_verdicts[i].claim = decomposition.sub_claims[i].claim
               /\ local_verdicts[i].verdict = "unverifiable"
               /\ local_verdicts[i].confidence = 0
               /\ local_verdicts[i].evidence = <<>>
               /\ Len(local_verdicts[i].reasoning) = 2
               /\ local_verdicts[i].reasoning[1] = "Bewertung fehlgeschlagen: "
               /\ local_verdicts[i].reasoning[2] \in RaisedKinds
        /\ ran[Len(ran)] = "evaluate" => error = NoMessage
        /\ EvaluateHasReturned =>
               /\ sub_verdicts = local_verdicts
               /\ Len(sub_verdicts) = Len(decomposition.sub_claims)

\* the call for the first of two sub-claims raised and the second got an engine verdict
C13_SecondEvaluatedAfterFailure ==
    /\ EvaluateHasReturned
    /\ eval_raised = {1}
    /\ Len(sub_verdicts) = 2
    /\ sub_verdicts[1].confidence = 0
    /\ sub_verdicts[2].verdict # "unverifiable"
    /\ error = NoMessage

\* Synthesize has run
SynthesizeRan == \E i \in 1..Len(ran) : ran[i] = "synthesize"

\* C14: on both paths Synthesize is entered with at least one sub-verdict, so
\* its guard against an empty list never fires and every synthesis call is
\* made on a non-empty list
C14_SynthesizeHasVerdicts ==
    /\ wpc = "synthesize" => Len(sub_verdicts) >= 1
    /\ SynthesizeRan =>
           /\ Len(sub_verdicts) >= 1
           /\ error # "Keine Einzelbewertungen vorhanden"

\* the chat path made the synthesis call on a single sub-verdict and got a result
C14_ChatSynthesisCalled ==
    /\ path = "chat"
    /\ SynthesizeRan
    /\ final_result # None
    /\ Len(sub_verdicts) = 1

\* C15: the error field and the final result are never both set; once an
\* error is recorded no summary is streamed and nothing is stored, and the
\* chat driver has shown exactly one error message (and none without an error)
C15_ErrorExcludesResult ==
    /\ ~(error # NoMessage /\ final_result # None)
    /\ error # NoMessage =>
           /\ store_calls = 0
           /\ wpc \notin {"summary", "store", "done"}
           /\ path = "chat" => error_messages = 1
    /\ error = NoMessage => error_messages = 0

\* on the chat path the synthesis call raised: only the error is set and one
\* message was shown
C15_SynthesizeFailed ==
    /\ path = "chat"
    /\ SynthesizeRan
    /\ error = "Fehler bei der Zusammenfassung"
    /\ final_result = None
    /\ error_messages = 1
    /\ store_calls = 0

\* what a stage in progress may write besides the error field
StageFrame ==
    /\ wpc = "decompose" =>
           UNCHANGED <<claim, search_results, sub_verdicts, human_feedback, final_result>>
    /\ wpc \in {"retrieve", "retrieving"} =>
           UNCHANGED <<claim, decomposition, sub_verdicts, human_feedback, final_result>>
    /\ wpc \in {"evaluate", "evaluating"} =>
           UNCHANGED <<claim, decomposition, search_results, human_feedback, final_result>>

\* the error field changes only from unset to set, and the run then stops
ErrorIsFinal == error' # error => (error = NoMessage /\ error' # NoMessage /\ wpc' = "error")

\* C16: Decompose, Retrieve and Evaluate write only their own output field or
\* the error field and leave the claim and the fields of earlier stages alone;
\* the error field is only ever set once, after which the run stands in Error
\* and no stage runs again
C16_AdditiveState ==
    /\ [][StageFrame /\ ErrorIsFinal]_vars
    /\ [](error # NoMessage => wpc = "error")

\* Evaluate has written its verdicts next to the unchanged output of the two
\* earlier stages
C16_ThreeFieldsWritten ==
    /\ EvaluateHasReturned
    /\ claim = "claim"
    /\ decomposition # None
    /\ DOMAIN search_results # {}
    /\ Len(sub_verdicts) = 2
    /\ error = NoMessage

\* Synthesize is about to merge the feedback of a reviewer
MergesReviewed ==
    /\ wpc = "synthesize"
    /\ sub_verdicts # <<>>
    /\ human_feedback # None
    /\ human_feedback.reviewed

\* the provenance note of a comment
ProvenanceNote(comment) == <<" [User-Korrektur: ", comment, "]">>

\* what the claim expects of sub-verdict i after the merge of correction fb
CorrectedAsStated(i, fb) ==
    /\ sub_verdicts'[i].verdict = fb.corrected_verdict
    /\ sub_verdicts'[i].reasoning =
           IF fb.user_comment # NoComment
           THEN sub_verdicts[i].reasoning \o ProvenanceNote(fb.user_comment)
           ELSE sub_verdicts[i].reasoning
    /\ sub_verdicts'[i].claim = sub_verdicts[i].claim
    /\ sub_verdicts'[i].confidence = sub_verdicts[i].confidence
    /\ sub_verdicts'[i].evidence = sub_verdicts[i].evidence
    /\ verdicts_json'[i] = model_dump(sub_verdicts'[i])

\* C18: with reviewed feedback, every sub-verdict named by a correction that
\* has a corrected verdict holds that verdict after the merge, its
\* justification is the previous one followed by the provenance note exactly
\* when the correction has a comment, its claim, confidence and evidence are
\* unchanged, and this value is what the synthesis prompt serializes
C18_EachCorrectionApplied ==
    [][MergesReviewed =>
           \A k \in 1..Len(human_feedback.sub_claim_feedback) :
               human_feedback.sub_claim_feedback[k].corrected_verdict # NoVerdict =>
                   \A i \in 1..Len(sub_verdicts) :
                       sub_verdicts[i].claim = human_feedback.sub_claim_feedback[k].claim =>
                           CorrectedAsStated(i, human_feedback.sub_claim_feedback[k])]_vars

\* ------------------------------------------------------------------------
\* synthesize_verdict on its own: the states it can be called on (SpecMerge)
\* ------------------------------------------------------------------------
\* the longest list of feedback entries
MaxEntries == 2

\* a sub-verdict as Evaluate leaves it
EvaluatedVerdict(claim_text) ==
    [claim |-> claim_text,
     verdict |-> "true",
     confidence |-> 9,
     evidence |-> <<>>,
     reasoning |-> <<"x">>]

\* state["sub_verdicts"]: one verdict, two verdicts, two verdicts on one text
MergeVerdictLists ==
    { <<EvaluatedVerdict(<<"a">>)>>,
      <<EvaluatedVerdict(<<"a">>), EvaluatedVerdict(<<"b">>)>>,
      <<EvaluatedVerdict(<<"a">>), EvaluatedVerdict(<<"a">>)>> }

\* corrected_verdict: absent, or one of two verdicts
MergeCorrections == {NoVerdict, "false", "misleading"}

\* SubClaimFeedback records; no sub-verdict has the claim text "z"
FeedbackEntries ==
    { Feedback(c, v, m) : c \in {<<"a">>, <<"b">>, <<"z">>},
                          v \in MergeCorrections, m \in CommentChoices }

FeedbackLists == UNION { [1..n -> FeedbackEntries] : n \in 0..MaxEntries }

\* state.get("human_feedback"): absent, or a HumanFeedback record
MergeFeedbacks ==
    {None} \cup
    { [reviewed |-> r, sub_claim_feedback |-> l, general_comment |-> NoComment] :
          r \in BOOLEAN, l \in FeedbackLists }

MergeInit ==
    /\ path \in {"graph", "chat"}
    /\ wpc = "synthesize"
    /\ claim = "claim"
    /\ decomposition = None
    /\ search_results = <<>>
    /\ sub_verdicts \in MergeVerdictLists
    /\ human_feedback \in MergeFeedbacks
    /\ path = "chat" => human_feedback # None
    /\ final_result = None
    /\ error = NoMessage
    /\ idx = 0
    /\ local_results = <<>>
    /\ local_verdicts = <<>>
    /\ api_key_set = TRUE
    /\ ran = <<"decompose", "retrieve", "evaluate">>
    /\ engine_calls = 0
    /\ search_calls = 0
    /\ decomp_call = NotCalled
    /\ eval_raised = {}
    /\ verdicts_json = <<>>
    /\ error_messages = 0
    /\ store_calls = 0
    /\ human_reviewed = NotStored

\* Synthesize is about to run on feedback that is absent or not reviewed
MergesUnreviewed ==
    /\ wpc = "synthesize"
    /\ sub_verdicts # <<>>
    /\ IF human_feedback = None THEN TRUE ELSE ~human_feedback.reviewed

\* C17: when the feedback is absent or has reviewed = false, synthesize_verdict
\* leaves every sub-verdict as it was, in every field and in order, whatever
\* corrections the record holds, and serializes these unchanged sub-verdicts
C17_UnreviewedChangesNothing ==
    [][MergesUnreviewed =>
           /\ sub_verdicts' = sub_verdicts
           /\ verdicts_json' = [i \in 1..Len(sub_verdicts) |-> model_dump(sub_verdicts[i])]]_vars

\* Synthesize has run on unreviewed feedback that holds a correction of the
\* first sub-verdict, which still holds its verdict
C17_UnreviewedCorrectionKept ==
    /\ SynthesizeRan
    /\ human_feedback # None
    /\ IF human_feedback = None THEN FALSE ELSE
           /\ ~human_feedback.reviewed
           /\ \E k \in 1..Len(human_feedback.sub_claim_feedback) :
                  /\ human_feedback.sub_claim_feedback[k].claim = sub_verdicts[1].claim
                  /\ human_feedback.sub_claim_feedback[k].corrected_verdict = "false"
                  /\ human_feedback.sub_claim_feedback[k].user_comment = "ctx"
    /\ sub_verdicts[1] = EvaluatedVerdict(<<"a">>)
    /\ final_result # None

\* the corrections of the feedback that name sub-verdict i and carry a verdict
CorrectionsOf(i) ==
    { k \in 1..Len(human_feedback.sub_claim_feedback) :
          /\ human_feedback.sub_claim_feedback[k].claim = sub_verdicts[i].claim
          /\ human_feedback.sub_claim_feedback[k].corrected_verdict # NoVerdict }

LastCorrectionOf(i) == CHOOSE k \in CorrectionsOf(i) : \A j \in CorrectionsOf(i) : j <= k

\* a correction that names the text of no sub-verdict
Unmatched(fb) ==
    /\ fb.corrected_verdict # NoVerdict
    /\ \A i \in 1..Len(sub_verdicts) : sub_verdicts[i].claim # fb.claim

\* C19: a correction that names the text of no sub-verdict changes nothing:
\* a sub-verdict no correction names is left as it was, a sub-verdict that
\* other corrections of the same record name still gets the verdict of the
\* last of them, and the merge neither stops the stage nor sets an error of
\* its own (the only error Synthesize sets here is the one of its engine call)
C19_UnmatchedCorrectionIgnored ==
    [][MergesReviewed =>
           /\ Len(sub_verdicts') = Len(sub_verdicts)
           /\ \A i \in 1..Len(sub_verdicts) :
                  IF CorrectionsOf(i) = {}
                  THEN sub_verdicts'[i] = sub_verdicts[i]
                  ELSE sub_verdicts'[i].verdict =
                           human_feedback.sub_claim_feedback[LastCorrectionOf(i)].corrected_verdict
           /\ error' \in {NoMessage, "Fehler bei der Zusammenfassung"}
           /\ error' = NoMessage => final_result' # None
           /\ wpc' \in {"done", "summary", "error"}]_vars

\* the record held an unmatched correction followed by a matching one: the
\* first of two sub-verdicts was corrected, the second is as it was, and the
\* engine call returned
C19_RestStillApplied ==
    /\ SynthesizeRan
    /\ IF human_feedback = None THEN FALSE ELSE
           /\ human_feedback.reviewed
           /\ Len(human_feedback.sub_claim_feedback) = 2
           /\ Unmatched(human_feedback.sub_claim_feedback[1])
           /\ human_feedback.sub_claim_feedback[2] = Feedback(<<"a">>, "false", NoComment)
    /\ Len(sub_verdicts) = 2
    /\ sub_verdicts[1] = [EvaluatedVerdict(<<"a">>) EXCEPT !.verdict = "false"]
    /\ sub_verdicts[2] = EvaluatedVerdict(<<"b">>)
    /\ error = NoMessage
    /\ final_result # None

\* no two sub-verdicts are about the same claim text
ClaimTextsDistinct ==
    \A i, j \in 1..Len(sub_verdicts) : sub_verdicts[i].claim = sub_verdicts[j].claim => i = j

\* C20: when a run with reviewed feedback ends in Done, every sub-verdict the
\* final result lists for a claim text that the reviewer corrected to v has
\* verdict v (stated for runs whose sub-verdicts are about distinct texts)
C20_FinalResultHoldsCorrection ==
    (wpc = "done" /\ final_result # None /\ human_feedback # None /\ ClaimTextsDistinct) =>
        IF human_feedback = None THEN TRUE ELSE
        human_feedback.reviewed =>
            \A k \in 1..Len(human_feedback.sub_claim_feedback) :
                human_feedback.sub_claim_feedback[k].corrected_verdict # NoVerdict =>
                    \A j \in 1..Len(final_result.sub_verdicts) :
                        final_result.sub_verdicts[j].claim =
                            human_feedback.sub_claim_feedback[k].claim =>
                                final_result.sub_verdicts[j].verdict =
                                    human_feedback.sub_claim_feedback[k].corrected_verdict

\* the feedback holds one entry per sub-verdict, in order, as
\* collect_human_feedback builds it
FeedbackAsCollected ==
    /\ Len(human_feedback.sub_claim_feedback) = Len(sub_verdicts)
    /\ \A i \in 1..Len(sub_verdicts) :
           human_feedback.sub_claim_feedback[i].claim = sub_verdicts[i].claim

\* C21: a sub-verdict whose own feedback entry has no corrected verdict has
\* the same verdict and justification after the merge as before it, also
\* when other sub-verdicts of the check were corrected
C21_AcceptedVerdictKept ==
    [][(MergesReviewed /\ FeedbackAsCollected) =>
           \A i \in 1..Len(sub_verdicts) :
               human_feedback.sub_claim_feedback[i].corrected_verdict = NoVerdict =>
                   /\ sub_verdicts'[i].verdict = sub_verdicts[i].verdict
                   /\ sub_verdicts'[i].reasoning = sub_verdicts[i].reasoning]_vars

\* ------------------------------------------------------------------------
\* Properties of search_evidence (SpecSearch)
\* ------------------------------------------------------------------------
\* where the provider returned a URL: <<query index, position in the answer>>
Occurrences(url) ==
    UNION { { <<i, p>> : p \in { q \in 1..Len(provider[i].results) :
                                     provider[i].results[q].url = url } } :
            i \in { j \in 1..Len(queries) : ~provider[j].raised } }

Before(a, b) == a[1] < b[1] \/ (a[1] = b[1] /\ a[2] < b[2])

FirstOccurrence(url) ==
    CHOOSE o \in Occurrences(url) : \A x \in Occurrences(url) : x = o \/ Before(o, x)

\* every URL some answered query returned
ReturnedUrls ==
    UNION { { provider[i].results[p].url : p \in 1..Len(provider[i].results) } :
            i \in { j \in 1..Len(queries) : ~provider[j].raised } }

\* the record search_evidence keeps for the first occurrence of a URL
RecordOfFirst(url) ==
    [url |-> url,
     title |-> provider[FirstOccurrence(url)[1]].results[FirstOccurrence(url)[2]].title,
     content |-> Min(provider[FirstOccurrence(url)[1]].results[FirstOccurrence(url)[2]].content,
                     ExcerptBudget),
     score |-> provider[FirstOccurrence(url)[1]].results[FirstOccurrence(url)[2]].score,
     query |-> queries[FirstOccurrence(url)[1]]]

\* C22: the records of search_evidence never hold a URL twice, and what it
\* returns holds, for every URL an answered query returned, the record of
\* its first occurrence in query order (title, excerpt, score, query)
C22_FirstOccurrenceKept ==
    /\ \A i, j \in 1..Len(all_results) :
           all_results[i].url = all_results[j].url => i = j
    /\ spc = "returned" =>
           /\ { all_results[i].url : i \in 1..Len(all_results) } = ReturnedUrls
           /\ \A i \in 1..Len(all_results) :
                  all_results[i] = RecordOfFirst(all_results[i].url)

\* u1 came back from the first query and again, with another title and a
\* higher score, from the second: the record of the first query was returned
C22_SeenAgainLater ==
    /\ spc = "returned"
    /\ Len(queries) >= 2
    /\ provider[1] = ProviderReturns(<<Hit("u1", "t1", 3, 5)>>)
    /\ provider[2] = ProviderReturns(<<Hit("u2", "t2", 600, 7), Hit("u1", "t1b", 3, 9)>>)
    /\ \E i \in 1..Len(all_results) :
           all_results[i] = [url |-> "u1", title |-> "t1", content |-> 3,
                             score |-> 5, query |-> "q1"]

\* C23 as stated: every returned record has a greater score than the next
C23_StrictlyDescending ==
    spc = "returned" =>
        \A i \in 1..(Len(all_results) - 1) :
            all_results[i].score > all_results[i + 1].score

\* C23: the returned records are in non-increasing order of score, and
\* records of equal score are in the order of their first occurrence
C23_DescendingStable ==
    spc = "returned" =>
        \A i \in 1..(Len(all_results) - 1) :
            /\ all_results[i].score >= all_results[i + 1].score
            /\ all_results[i].score = all_results[i + 1].score =>
                   Before(FirstOccurrence(all_results[i].url),
                          FirstOccurrence(all_results[i + 1].url))

\* three records were returned, the last two with the same score in the
\* order the provider gave them
C23_TieReturned ==
    /\ spc = "returned"
    /\ Len(all_results) = 3
    /\ all_results[1].score = 9
    /\ all_results[2].url = "u3" /\ all_results[2].score = 7
    /\ all_results[3].url = "u2" /\ all_results[3].score = 7

\* the provider's answers with every failed query replaced by an empty answer
FailuresAsEmpty ==
    [i \in 1..Len(queries) |->
        IF provider[i].raised THEN ProviderReturns(<<>>) ELSE provider[i]]

\* C24: a query whose provider call raises contributes no record and the
\* later queries still run: what is returned equals what search_evidence
\* returns when that query gives an empty answer, and when every query
\* fails the loop ends normally with the empty list
C24_FailedQuerySkipped ==
    /\ spc = "loop" =>
           \A i \in 1..(qi - 1) : provider[i].raised =>
               \A k \in 1..Len(all_results) : all_results[k].query # queries[i]
    /\ spc = "returned" =>
           /\ qi = Len(queries) + 1
           /\ all_results = search_evidence(queries, FailuresAsEmpty)
           /\ \A i \in 1..Len(queries) : provider[i].raised =>
                  \A k \in 1..Len(all_results) : all_results[k].query # queries[i]
           /\ (\A i \in 1..Len(queries) : provider[i].raised) => all_results = <<>>

\* the first query failed and the records of the second were returned
C24_LaterQueryStillRan ==
    /\ spc = "returned"
    /\ Len(queries) = 2
    /\ provider[1].raised
    /\ Len(all_results) = 2
    /\ \A k \in 1..2 : all_results[k].query = "q2"

\* ------------------------------------------------------------------------
\* Properties of the chat driver's store (Spec)
\* ------------------------------------------------------------------------
\* C25: store_fact_check is called at most once in a claim check, and only
\* after Synthesize has produced a final result with no error recorded; the
\* human_reviewed flag it is given tells whether the reviewer went through
\* the review; a run that ended in Error, or that was answered from a stored
\* result, never calls it
C25_StoredOnceAfterResult ==
    /\ store_calls <= 1
    /\ store_calls = 1 =>
           /\ path = "chat"
           /\ SynthesizeRan
           /\ final_result # None
           /\ error = NoMessage
           /\ human_reviewed = human_feedback.reviewed
    /\ store_calls = 0 => human_reviewed = NotStored
    /\ (error # NoMessage \/ wpc \in {"error", "reused", "crashed"}) => store_calls = 0

\* a reviewed check has been stored with the flag set
C25_StoredReviewed ==
    /\ wpc = "done"
    /\ store_calls = 1
    /\ human_feedback.reviewed
    /\ human_reviewed = TRUE

\* ------------------------------------------------------------------------
\* Properties of _extract_json (SpecExtract)
\* ------------------------------------------------------------------------
\* three fence characters stand at position q of s
FenceAt(s, q) == q + 2 <= Len(s) /\ s[q] = BT /\ s[q + 1] = BT /\ s[q + 2] = BT

\* the positions after the first line at which a line of s starts with a fence
LaterFences(s) == { q \in 2..Len(s) : s[q - 1] = NL /\ FenceAt(s, q) }

LineBreaks(s) == { p \in 1..Len(s) : s[p] = NL }

Least(S) == CHOOSE x \in S : \A y \in S : x <= y

\* the text strictly between the first line of s and the next line that
\* starts with a fence, or the end of s
BetweenFences(s) ==
    IF LineBreaks(s) = {} THEN <<>>
    ELSE IF LaterFences(s) = {} THEN SubSeq(s, Least(LineBreaks(s)) + 1, Len(s))
    ELSE SubSeq(s, Least(LineBreaks(s)) + 1, Least(LaterFences(s)) - 2)

\* C30: when the stripped buffer begins with a fence, _extract_json returns
\* the lines strictly between the first fence line and the next line that
\* starts with a fence, or the end of the buffer if there is none; otherwise
\* it returns the stripped buffer
C30_FenceStripped ==
    rstage = "extracted" =>
        out1 = IF FenceAt(Strip(buf), 1) THEN BetweenFences(Strip(buf)) ELSE Strip(buf)

\* a fenced candidate was taken out of a buffer that has whitespace before
\* the opening fence and text after the closing one
C30_FencedWithSurroundings ==
    /\ rstage = "extracted"
    /\ Len(buf) > 0
    /\ buf[1] \in Whitespace
    /\ FenceAt(Strip(buf), 1)
    /\ LaterFences(Strip(buf)) # {}
    /\ Least(LaterFences(Strip(buf))) + 3 < Len(Strip(buf))
    /\ out1 = <<LB, RB>>

\* ------------------------------------------------------------------------
\* Properties of Evaluate, Retrieve and the review (Spec)
\* ------------------------------------------------------------------------
\* a verdict the stage built itself: the sub-claim had no evidence, or its
\* structured call raised
BuiltByStage(v) == v.verdict = "unverifiable" /\ v.confidence <= 1 /\ v.evidence = <<>>

\* C31: Evaluate appends one sub-verdict per sub-claim, in the order of the
\* decomposition, whether the sub-claim had no evidence, its call returned or
\* its call failed; what it returns has as many sub-verdicts as sub-claims
C31_OneVerdictPerSubClaim ==
    /\ wpc = "evaluating" =>
           /\ Len(local_verdicts) = idx - 1
           /\ idx <= Len(decomposition.sub_claims) + 1
           /\ \A i \in eval_raised :
                  local_verdicts[i].claim = decomposition.sub_claims[i].claim
    /\ (EvaluateHasReturned /\ decomposition # None) =>
           /\ Len(sub_verdicts) = Len(decomposition.sub_claims)
           /\ \A i \in 1..Len(sub_verdicts) :
                  BuiltByStage(sub_verdicts[i]) =>
                      sub_verdicts[i].claim = decomposition.sub_claims[i].claim

\* two sub-claims: the first had no evidence, the call for the second failed
C31_MixedOutcomes ==
    /\ EvaluateHasReturned
    /\ Len(decomposition.sub_claims) = 2
    /\ Len(sub_verdicts) = 2
    /\ sub_verdicts[1] = NoSourcesVerdict(decomposition.sub_claims[1].claim)
    /\ eval_raised = {2}

\* Retrieve is about to search for the sub-claim at idx
RetrievesOne ==
    /\ wpc = "retrieving"
    /\ idx <= Len(decomposition.sub_claims)
    /\ idx' = idx + 1

\* C32: the evidence map holds, for every sub-claim, what the aggregator
\* returned for that sub-claim's own queries: the search for a later
\* sub-claim leaves what the map gives for every earlier one as it was, also
\* when two sub-claims have the same text, and Evaluate reads the map by the
\* sub-claim's text
C32_EvidenceOfOwnQueries ==
    [][RetrievesOne =>
           \A i \in 1..(idx - 1) :
               Get(local_results', decomposition.sub_claims[i].claim)
                   = Get(local_results, decomposition.sub_claims[i].claim)]_vars

\* ------------------------------------------------------------------------
\* The external calls of one claim check, each from the moment it is issued
\* to the moment it completes (SpecCalls).  A stage stands at a call site
\* ("decompose", "retrieving", "evaluating", "synthesize", "summary") or
\* waits for the call it issued ("decomposing", "searching", "judging",
\* "synthesizing", "summarizing"); attempt counts the streams of the
\* structured call in progress, qi the queries of the sub-claim in progress.
\* The review of the chat driver makes no external call and is left out.
\* ------------------------------------------------------------------------
SubClaim(c, qs) == [claim |-> <<c>>, search_queries |-> qs]

\* what the engine may decompose a claim into
CallDecompositions ==
    { [sub_claims |-> l] :
        l \in { <<SubClaim("a", <<<<"k">>>>)>>,
                <<SubClaim("a", <<<<"k">>, <<"m">>>>)>>,
                <<SubClaim("a", <<<<"k">>>>), SubClaim("b", <<<<"m">>, <<"n">>>>)>>,
                <<SubClaim("a", <<<<"k">>, <<"m">>>>), SubClaim("a", <<<<"n">>>>)>> } }

\* nodes.py line 283: a token stream of the engine
EngineStream(stage, sub) == [kind |-> "stream", stage |-> stage, sub |-> sub, n |-> attempt]

\* tools.py line 49: a search of the evidence provider
ProviderSearch(sub, q) == [kind |-> "search", stage |-> "retrieve", sub |-> sub, n |-> q]

\* what no step of SpecCalls touches
CallsFrame ==
    /\ UNCHANGED <<path, claim, human_feedback, final_result, local_verdicts, api_key_set,
                   decomp_call, eval_raised, verdicts_json, error_messages, store_calls,
                   human_reviewed>>
    /\ UNCHANGED <<response_model, max_retries, on_token, script, cpc, messages,
                   accumulated, tpos, observed, calls, last_error, result, raised, log>>
    /\ UNCHANGED <<queries, provider, all_results, seen_urls, spc>>
    /\ UNCHANGED rvars
    /\ UNCHANGED <<answers, sub_claim_feedback, tvars, lvars>>

CallsSubClaim == decomposition.sub_claims[idx]

\* decompose_claim, line 366, and call_claude_structured, lines 266-288
OpenDecompose ==
    /\ wpc = "decompose"
    /\ outstanding' = outstanding \cup {EngineStream("decompose", 0)}
    /\ engine_calls' = engine_calls + 1
    /\ ran' = IF attempt = 0 THEN Append(ran, "decompose") ELSE ran
    /\ wpc' = "decomposing"
    /\ UNCHANGED <<idx, decomposition, search_results, sub_verdicts, error, search_calls,
                   local_results, attempt, qi>>
    /\ CallsFrame

\* call_claude_structured, lines 289-314, and decompose_claim, lines 378-382
DecomposeStreamEnds ==
    /\ wpc = "decomposing"
    /\ outstanding' = outstanding \ {EngineStream("decompose", 0)}
    /\ \/ /\ decomposition' \in CallDecompositions
          /\ wpc' = "retrieve"
          /\ attempt' = 0
          /\ error' = error
       \/ /\ attempt < DefaultMaxRetries
          /\ attempt' = attempt + 1
          /\ wpc' = "decompose"
          /\ UNCHANGED <<decomposition, error>>
       \/ /\ attempt = DefaultMaxRetries
          /\ error' = "Fehler bei der Zerlegung"
          /\ wpc' = "error"
          /\ UNCHANGED <<decomposition, attempt>>
    /\ UNCHANGED <<idx, search_results, sub_verdicts, ran, engine_calls, search_calls,
                   local_results, qi>>
    /\ CallsFrame

\* retrieve_evidence, lines 399-406
EnterRetrieve ==
    /\ wpc = "retrieve"
    /\ ran' = Append(ran, "retrieve")
    /\ wpc' = "retrieving"
    /\ idx' = 1
    /\ qi' = 1
    /\ local_results' = <<>>
    /\ UNCHANGED <<decomposition, search_results, sub_verdicts, error, engine_calls,
                   search_calls, outstanding, attempt>>
    /\ CallsFrame

\* a search loop that issues every query of the sub-claim before it waits
IssueAllSearches ==
    /\ wpc = "retrieving"
    /\ idx <= Len(decomposition.sub_claims)
    /\ outstanding' = outstanding \cup
           { ProviderSearch(idx, q) : q \in qi..Len(CallsSubClaim.search_queries) }
    /\ search_calls' = search_calls + 1
    /\ wpc' = "searching"
    /\ UNCHANGED <<idx, decomposition, search_results, sub_verdicts, error, ran,
                   engine_calls, local_results, attempt, qi>>
    /\ CallsFrame

\* retrieve_evidence, line 409, and search_evidence, lines 46-55: client.search
IssueSearch ==
    /\ wpc = "retrieving"
    /\ idx <= Len(decomposition.sub_claims)
    /\ outstanding' = outstanding \cup {ProviderSearch(idx, qi)}
    /\ search_calls' = search_calls + 1
    /\ wpc' = "searching"
    /\ UNCHANGED <<idx, decomposition, search_results, sub_verdicts, error, ran,
                   engine_calls, local_results, attempt, qi>>
    /\ CallsFrame

\* search_evidence, lines 57-71, and retrieve_evidence, line 410: the search
\* returns or raises; after the last query the evidence is filed under the
\* claim text
SearchEnds ==
    /\ wpc = "searching"
    /\ outstanding' = outstanding \ {ProviderSearch(idx, qi)}
    /\ \E hits \in {<<>>, <<Hit("u1", "t1", 3, 5)>>} :
           local_results' =
               Put(local_results, CallsSubClaim.claim,
                   (IF qi = 1 THEN <<>> ELSE Get(local_results, CallsSubClaim.claim)) \o hits)
    /\ IF qi < Len(CallsSubClaim.search_queries)
       THEN qi' = qi + 1 /\ idx' = idx
       ELSE qi' = 1 /\ idx' = idx + 1
    /\ wpc' = "retrieving"
    /\ UNCHANGED <<decomposition, search_results, sub_verdicts, error, ran, engine_calls,
                   search_calls, attempt>>
    /\ CallsFrame

\* retrieve_evidence, line 413
RetrieveReturns ==
    /\ wpc = "retrieving"
    /\ idx > Len(decomposition.sub_claims)
    /\ search_results' = local_results
    /\ wpc' = "evaluate"
    /\ UNCHANGED <<idx, decomposition, sub_verdicts, error, ran, engine_calls, search_calls,
                   local_results, outstanding, attempt, qi>>
    /\ CallsFrame

\* evaluate_evidence, lines 427-433
EnterEvaluate ==
    /\ wpc = "evaluate"
    /\ ran' = Append(ran, "evaluate")
    /\ wpc' = "evaluating"
    /\ idx' = 1
    /\ sub_verdicts' = <<>>
    /\ UNCHANGED <<decomposition, search_results, error, engine_calls, search_calls,
                   local_results, outstanding, attempt, qi>>
    /\ CallsFrame

\* evaluate_evidence, lines 442-450: no evidence, no call
EvaluateWithoutCall ==
    /\ wpc = "evaluating"
    /\ idx <= Len(decomposition.sub_claims)
    /\ Get(search_results, CallsSubClaim.claim) = <<>>
    /\ sub_verdicts' = Append(sub_verdicts, NoSourcesVerdict(CallsSubClaim.claim))
    /\ idx' = idx + 1
    /\ UNCHANGED <<wpc, decomposition, search_results, error, ran, engine_calls,
                   search_calls, local_results, outstanding, attempt, qi>>
    /\ CallsFrame

\* evaluate_evidence, line 455, and call_claude_structured, lines 266-288
OpenEvaluate ==
    /\ wpc = "evaluating"
    /\ idx <= Len(decomposition.sub_claims)
    /\ Get(search_results, CallsSubClaim.claim) # <<>>
    /\ outstanding' = outstanding \cup {EngineStream("evaluate", idx)}
    /\ engine_calls' = engine_calls + 1
    /\ wpc' = "judging"
    /\ UNCHANGED <<idx, decomposition, search_results, sub_verdicts, error, ran,
                   search_calls, local_results, attempt, qi>>
    /\ CallsFrame

\* call_claude_structured, lines 289-314, and evaluate_evidence, lines 466-477
EvaluateStreamEnds ==
    /\ wpc = "judging"
    /\ outstanding' = outstanding \ {EngineStream("evaluate", idx)}
    /\ \/ /\ sub_verdicts' = Append(sub_verdicts, EvaluatedVerdict(CallsSubClaim.claim))
          /\ idx' = idx + 1
          /\ attempt' = 0
       \/ /\ attempt < DefaultMaxRetries
          /\ attempt' = attempt + 1
          /\ UNCHANGED <<sub_verdicts, idx>>
       \/ /\ attempt = DefaultMaxRetries
          /\ sub_verdicts' = Append(sub_verdicts, FailedVerdict(CallsSubClaim.claim, APIError))
          /\ idx' = idx + 1
          /\ attempt' = 0
    /\ wpc' = "evaluating"
    /\ UNCHANGED <<decomposition, search_results, error, ran, engine_calls, search_calls,
                   local_results, qi>>
    /\ CallsFrame

\* evaluate_evidence, line 479
EvaluateReturns ==
    /\ wpc = "evaluating"
    /\ idx > Len(decomposition.sub_claims)
    /\ wpc' = "synthesize"
    /\ UNCHANGED <<idx, decomposition, search_results, sub_verdicts, error, ran,
                   engine_calls, search_calls, local_results, outstanding, attempt, qi>>
    /\ CallsFrame

\* synthesize_verdict, line 561, and call_claude_structured, lines 266-288
OpenSynthesize ==
    /\ wpc = "synthesize"
    /\ outstanding' = outstanding \cup {EngineStream("synthesize", 0)}
    /\ engine_calls' = engine_calls + 1
    /\ ran' = IF attempt = 0 THEN Append(ran, "synthesize") ELSE ran
    /\ wpc' = "synthesizing"
    /\ UNCHANGED <<idx, decomposition, search_results, sub_verdicts, error, search_calls,
                   local_results, attempt, qi>>
    /\ CallsFrame

\* call_claude_structured, lines 289-314, and synthesize_verdict, lines 577-581
SynthesizeStreamEnds ==
    /\ wpc = "synthesizing"
    /\ outstanding' = outstanding \ {EngineStream("synthesize", 0)}
    /\ \/ /\ wpc' = IF path = "chat" THEN "summary" ELSE "done"
          /\ attempt' = 0
          /\ error' = error
       \/ /\ attempt < DefaultMaxRetries
          /\ attempt' = attempt + 1
          /\ wpc' = "synthesize"
          /\ error' = error
       \/ /\ attempt = DefaultMaxRetries
          /\ error' = "Fehler bei der Zusammenfassung"
          /\ wpc' = "error"
          /\ attempt' = attempt
    /\ UNCHANGED <<idx, decomposition, search_results, sub_verdicts, ran, engine_calls,
                   search_calls, local_results, qi>>
    /\ CallsFrame

\* app.py lines 615-625 and stream_claude_text, line 339: the summary stream
OpenSummary ==
    /\ wpc = "summary"
    /\ outstanding' = outstanding \cup {EngineStream("summary", 0)}
    /\ engine_calls' = engine_calls + 1
    /\ wpc' = "summarizing"
    /\ UNCHANGED <<idx, decomposition, search_results, sub_verdicts, error, ran,
                   search_calls, local_results, attempt, qi>>
    /\ CallsFrame

\* stream_claude_text, lines 339-348: the stream ends or raises
SummaryEnds ==
    /\ wpc = "summarizing"
    /\ outstanding' = outstanding \ {EngineStream("summary", 0)}
    /\ wpc' \in {"done", "crashed"}
    /\ UNCHANGED <<idx, decomposition, search_results, sub_verdicts, error, ran,
                   engine_calls, search_calls, local_results, attempt, qi>>
    /\ CallsFrame

\* C33: within one claim check at most one external call is outstanding: a
\* stream or a search is issued only when none is in flight, so the call for
\* one sub-claim has completed before the next begins, and a stage starts
\* only when nothing is outstanding
C33_OneCallAtATime ==
    [][/\ Cardinality(outstanding') <= 1
       /\ ~(outstanding' \subseteq outstanding) => outstanding = {}
       /\ Len(ran') > Len(ran) => outstanding = {}
       /\ \A c \in outstanding' : c.stage \in {"retrieve", "evaluate"} => c.sub = idx']_vars

\* the second search of a sub-claim is in flight after the first has completed
C33_SecondSearchInFlight ==
    /\ wpc = "searching"
    /\ qi = 2
    /\ outstanding = {ProviderSearch(idx, 2)}
    /\ search_calls = 2

\* ------------------------------------------------------------------------
\* collect_human_feedback (app.py), one sub-verdict at a time (SpecReview)
\* ------------------------------------------------------------------------
\* a prompt that timed out: AskActionMessage / AskUserMessage returned None
NoAnswer == "timeout"

\* a prompt that was never shown
NotAsked == "not asked"

\* what the reviewer may answer to the prompts of one sub-verdict: the action
\* of the first prompt, the verdict of the second, the text of the third
\* the answer to a text prompt: none, or the text entered
NoTextAnswer == [given |-> FALSE, text |-> <<>>]

TextAnswer(t) == [given |-> TRUE, text |-> t]

TextAnswers == {NoTextAnswer, TextAnswer(<<>>), TextAnswer(<<SP>>), TextAnswer(<<"c", "t", "x", SP>>)}

ReviewAnswers ==
    { [first |-> f, picked |-> NotAsked, commented |-> NoTextAnswer] : f \in {NoAnswer, "accept"} }
        \cup { [first |-> "correct", picked |-> v, commented |-> c] :
                   v \in {NoAnswer, "false", "misleading"}, c \in TextAnswers }

\* a comment that is None, among comments kept as text
NoText == <<NoComment>>

\* lines 246-256 and 291-300: text.strip() or None
CommentOf(answer) ==
    IF ~answer.given \/ Strip(answer.text) = <<>> THEN NoText ELSE Strip(answer.text)

\* an entry that takes a prompt without answer for a correction to false
EntryCorrectsOnTimeout(sv, a) ==
    Feedback(sv.claim, IF a.picked \in {"false", "misleading"} THEN a.picked ELSE "false",
             CommentOf(a.commented))

\* lines 220-280: the entry appended for sub-verdict sv on the answers a
CollectedEntry(sv, a) ==
    IF a.first = "correct"
    THEN Feedback(sv.claim, IF a.picked = NoAnswer THEN NoVerdict ELSE a.picked,
                  CommentOf(a.commented))
    ELSE Feedback(sv.claim, NoVerdict, NoText)

\* app.py lines 524-530: Evaluate has returned and the reviewer chose to review
ReviewInit ==
    /\ path = "chat"
    /\ wpc = "review"
    /\ claim = "claim"
    /\ decomposition = None
    /\ search_results = <<>>
    /\ sub_verdicts \in MergeVerdictLists
    /\ human_feedback = NotReviewed
    /\ final_result = None
    /\ error = NoMessage
    /\ idx = 0
    /\ local_results = <<>>
    /\ local_verdicts = <<>>
    /\ api_key_set = TRUE
    /\ ran = <<"decompose", "retrieve", "evaluate">>
    /\ engine_calls = 0
    /\ search_calls = 0
    /\ decomp_call = NotCalled
    /\ eval_raised = {}
    /\ verdicts_json = <<>>
    /\ error_messages = 0
    /\ store_calls = 0
    /\ human_reviewed = NotStored

\* what no step of SpecReview touches
ReviewFrame ==
    /\ UNCHANGED <<path, claim, decomposition, search_results, sub_verdicts,
                   final_result, error, local_results, local_verdicts, api_key_set, ran,
                   engine_calls, search_calls, decomp_call, eval_raised, verdicts_json,
                   error_messages, store_calls, human_reviewed>>
    /\ UNCHANGED <<rvars, cvars, svars>>
    /\ UNCHANGED <<outstanding, tvars, lvars>>

\* lines 191-280: the prompts for the next sub-verdict and the entry appended
AskSubVerdict ==
    /\ wpc = "review"
    /\ idx < Len(sub_verdicts)
    /\ \E a \in ReviewAnswers :
           /\ answers' = Append(answers, a)
           /\ sub_claim_feedback' =
                  Append(sub_claim_feedback, CollectedEntry(sub_verdicts[idx + 1], a))
    /\ idx' = idx + 1
    /\ UNCHANGED <<wpc, human_feedback>>
    /\ ReviewFrame

\* lines 282-306: the general comment and the record returned
ReturnFeedback ==
    /\ wpc = "review"
    /\ idx = Len(sub_verdicts)
    /\ \E general \in TextAnswers :
           human_feedback' = [reviewed |-> TRUE,
                              sub_claim_feedback |-> sub_claim_feedback,
                              general_comment |-> CommentOf(general)]
    /\ wpc' = "synthesize"
    /\ UNCHANGED <<idx, answers, sub_claim_feedback>>
    /\ ReviewFrame

\* collect_human_feedback has returned
FeedbackReturned == wpc = "synthesize"

\* C34: collect_human_feedback returns a record with reviewed set that holds
\* one entry per sub-verdict, in order, each with the claim text of its
\* sub-verdict; an entry has a corrected verdict only if the reviewer chose
\* to correct and picked that verdict, and a prompt that got no answer gives
\* an entry without a corrected verdict
C34_OneEntryPerSubVerdict ==
    FeedbackReturned =>
        /\ human_feedback.reviewed
        /\ Len(human_feedback.sub_claim_feedback) = Len(sub_verdicts)
        /\ \A i \in 1..Len(sub_verdicts) :
               LET fb == human_feedback.sub_claim_feedback[i] IN
               /\ fb.claim = sub_verdicts[i].claim
               /\ fb.corrected_verdict # NoVerdict =>
                      /\ answers[i].first = "correct"
                      /\ answers[i].picked = fb.corrected_verdict
               /\ answers[i].first = NoAnswer => fb = Feedback(sub_verdicts[i].claim, NoVerdict, NoText)
               /\ answers[i].picked = NoAnswer => fb.corrected_verdict = NoVerdict

\* of two sub-verdicts the first prompt timed out and the second was
\* corrected
C34_TimeoutThenCorrection ==
    /\ FeedbackReturned
    /\ Len(sub_verdicts) = 2
    /\ answers[1].first = NoAnswer
    /\ answers[2].first = "correct"
    /\ human_feedback.sub_claim_feedback[2].corrected_verdict = "false"
    /\ human_feedback.sub_claim_feedback[2].user_comment = <<"c", "t", "x">>

\* ------------------------------------------------------------------------
\* Properties of the review and the reuse of stored checks (Spec)
\* ------------------------------------------------------------------------
\* C35: the review is reached only on the chat path, after Evaluate has
\* returned without an error and before Synthesize has run, and only the
\* review sets the feedback; a reviewer who declines or does not answer
\* leaves feedback that is not reviewed, and Synthesize then changes no
\* sub-verdict
C35_ReviewBetweenEvaluateAndSynthesize ==
    [][/\ wpc' = "review" =>
              /\ path = "chat"
              /\ ran'[Len(ran')] = "evaluate"
              /\ error' = NoMessage
              /\ final_result' = None
       /\ human_feedback' # human_feedback =>
              /\ wpc = "review" /\ wpc' = "synthesize"
              /\ \/ human_feedback' = NotReviewed
                 \/ /\ human_feedback'.reviewed
                    /\ Len(human_feedback'.sub_claim_feedback) = Len(sub_verdicts)
       /\ (wpc = "synthesize" /\ path = "chat" /\ ~human_feedback.reviewed) =>
              sub_verdicts' = sub_verdicts]_vars

\* the reviewer declined and the synthesis has run on the verdicts of Evaluate
C35_DeclinedThenSynthesized ==
    /\ path = "chat"
    /\ SynthesizeRan
    /\ human_feedback = NotReviewed
    /\ final_result # None
    /\ Len(sub_verdicts) = 2

\* ------------------------------------------------------------------------
\* The table of stored checks: store_fact_check and find_exact_claim
\* (SpecStore).  created_at is the reading of the wall clock at the insert,
\* written by isoformat() in UTC; texts of that form compare as the readings
\* do (a reading with no microseconds is written without the fraction and
\* "+" sorts before "."), so a reading is kept as a number here.
\* ------------------------------------------------------------------------
MaxRows == 2
MaxClock == 1

NotSearched == [searched |-> FALSE]

\* str.rstrip('.!?;:')
Punctuation == {".", "!", "?", ";", CL}

\* the claims handed to the table: letters of both cases, blanks, line
\* breaks and punctuation at the end
ClaimTexts ==
    { <<"a">>, <<"A">>, <<"a", "?", "!">>, <<SP, "a", NL>>,
      <<"a", SP, ".">>, <<"a", SP, "b">>, <<"A", NL, SP, "B">> }

\* str.lower()
Lower(s) ==
    [i \in 1..Len(s) |->
        CASE s[i] = "A" -> "a" [] s[i] = "B" -> "b" [] s[i] = "H" -> "h" [] OTHER -> s[i]]

\* re.sub(r'\s+', ' ', text)
RECURSIVE CollapseWhitespace(_)
CollapseWhitespace(s) ==
    IF s = <<>> THEN <<>>
    ELSE IF Head(s) \in Whitespace THEN <<SP>> \o CollapseWhitespace(LStrip(Tail(s)))
    ELSE <<Head(s)>> \o CollapseWhitespace(Tail(s))

RECURSIVE RStripPunctuation(_)
RStripPunctuation(s) ==
    IF s # <<>> /\ s[Len(s)] \in Punctuation
    THEN RStripPunctuation(SubSeq(s, 1, Len(s) - 1))
    ELSE s

\* database.py _normalize_claim
normalize_claim(c) == RStripPunctuation(CollapseWhitespace(Strip(Lower(c))))

\* the results of completed checks
StoredResults ==
    { [overall_verdict |-> "true", confidence |-> 9, summary |-> "y"],
      [overall_verdict |-> "false", confidence |-> 2, summary |-> "n"] }

\* result.model_dump_json(): the enum by its value, the fields by name
ModelDumpJson(r) ==
    [o |-> r.overall_verdict, p |-> r.confidence, y |-> r.summary]

\* FactCheckResult.model_validate_json(row["result_json"]), None when it raises
ModelValidateJson(j) ==
    IF j.o \in Verdicts /\ j.p \in 0..10
    THEN [overall_verdict |-> j.o, confidence |-> j.p, summary |-> j.y]
    ELSE None

\* database.py store_fact_check; given is the instance that was passed in
StoreFactCheck ==
    /\ Len(fact_checks) < MaxRows
    /\ \E c \in ClaimTexts, r \in StoredResults, now \in 0..MaxClock :
           fact_checks' = Append(fact_checks, [id |-> Len(fact_checks) + 1,
                                 claim |-> c,
                                 claim_normalized |-> normalize_claim(c),
                                 result_json |-> ModelDumpJson(r),
                                 created_at |-> now,
                                 given |-> r])
    /\ looked_up' = <<>>
    /\ exact_match' = NotSearched
    /\ UNCHANGED <<outstanding, answers, sub_claim_feedback, incoming, reuse_action, lvars>>
    /\ UNCHANGED <<rvars, cvars, wvars, svars>>

\* WHERE claim_normalized = ?
Selected(table, normalized) ==
    {i \in 1..Len(table) : table[i].claim_normalized = normalized}

\* ORDER BY created_at DESC LIMIT 1: a row no other selected row comes before;
\* among fact_checks of equal created_at the order is not determined
FirstByCreatedAtDesc(table, sel) ==
    {i \in sel : \A j \in sel : table[j].created_at <= table[i].created_at}

\* the dict of lines 253-261
RowDict(row) ==
    [id |-> row.id, claim |-> row.claim, created_at |-> row.created_at,
     result |-> ModelValidateJson(row.result_json)]

\* database.py find_exact_claim: every value the call may return
find_exact_claim(table, c) ==
    LET sel == Selected(table, normalize_claim(c)) IN
    IF sel = {} THEN {None}
    ELSE {RowDict(table[i]) : i \in FirstByCreatedAtDesc(table, sel)}

FindExactClaim ==
    /\ \E c \in ClaimTexts :
           /\ looked_up' = c
           /\ exact_match' \in find_exact_claim(fact_checks, c)
    /\ UNCHANGED <<fact_checks, outstanding, answers, sub_claim_feedback, incoming, reuse_action, lvars>>
    /\ UNCHANGED <<rvars, cvars, wvars, svars>>

\* the inserts whose claim normalizes to the same text as c
SameNormalizedText(table, c) ==
    {i \in 1..Len(table) : normalize_claim(table[i].claim) = normalize_claim(c)}

\* the last of them
MostRecentlyStored(table, c) ==
    CHOOSE i \in SameNormalizedText(table, c) : \A j \in SameNormalizedText(table, c) : j <= i

\* C37: find_exact_claim(c) returns the check stored last among those whose
\* claim normalizes to the same text as c, with the result that was stored,
\* and returns nothing when no such check was stored
C37_MostRecentlyStoredMatch ==
    exact_match # NotSearched =>
        IF SameNormalizedText(fact_checks, looked_up) = {} THEN exact_match = None
        ELSE LET row == fact_checks[MostRecentlyStored(fact_checks, looked_up)] IN
             /\ exact_match # None
             /\ exact_match.id = row.id
             /\ exact_match.claim = row.claim
             /\ exact_match.result = row.given

\* every insert read a later clock than the insert before it
ClockAdvanced == \A i \in 1..(Len(fact_checks) - 1) : fact_checks[i].created_at < fact_checks[i + 1].created_at

\* the same, for tables written while the wall clock advanced between inserts
MostRecentWhileClockAdvances == ClockAdvanced => C37_MostRecentlyStoredMatch

\* two checks of the same normalized claim were stored and the claim was looked up
TwoMatchesLookedUp ==
    /\ exact_match # NotSearched
    /\ Cardinality(SameNormalizedText(fact_checks, looked_up)) >= 2
    /\ ClockAdvanced

\* ------------------------------------------------------------------------
\* RateLimiter (agent/rate_limiter.py): check, record and reset on the
\* sessions of one process (SpecLimiter).  A dict entry is absent or holds a
\* value; reading an absent entry of a defaultdict inserts the default.
\* ------------------------------------------------------------------------
MAX_CHECKS_PER_SESSION == 10
MIN_SECONDS_BETWEEN_CHECKS == 30

\* the last reading of the clock
MaxTime == 300

\* how far the clock moves between two operations
ClockSteps == {15, 30}

Sessions == {"s1", "s2"}

NoEntry == [set |-> FALSE, v |-> 0]
Entry(n) == [set |-> TRUE, v |-> n]

NoOp == [op |-> "none", session |-> "none", allowed |-> FALSE]

\* RateLimiter.__init__, with the clock past the epoch
LimiterInit ==
    /\ session_counts = [s \in Sessions |-> NoEntry]
    /\ session_last_check = [s \in Sessions |-> NoEntry]
    /\ clock = 15
    /\ last_op = NoOp

\* what no operation on the limiter touches
LimiterFrame ==
    /\ UNCHANGED <<outstanding, answers, sub_claim_feedback, tvars>>
    /\ UNCHANGED <<rvars, cvars, wvars, svars>>

\* time passes
ClockTick ==
    /\ \E d \in ClockSteps : clock + d <= MaxTime /\ clock' = clock + d
    /\ UNCHANGED <<session_counts, session_last_check, last_op>>
    /\ LimiterFrame

\* a limiter with one count for all sessions
CheckAllSessions(sid) ==
    LET total == session_counts["s1"].v + session_counts["s2"].v
        last == session_last_check[sid].v IN
    /\ session_counts' = [session_counts EXCEPT ![sid] = Entry(@.v)]
    /\ IF total >= MAX_CHECKS_PER_SESSION
       THEN /\ last_op' = [op |-> "check", session |-> sid, allowed |-> FALSE]
            /\ UNCHANGED session_last_check
       ELSE /\ session_last_check' = [session_last_check EXCEPT ![sid] = Entry(@.v)]
            /\ last_op' = [op |-> "check", session |-> sid,
                           allowed |-> ~(last > 0 /\ clock - last < MIN_SECONDS_BETWEEN_CHECKS)]
    /\ UNCHANGED clock
    /\ LimiterFrame

\* RateLimiter.check
Check(sid) ==
    LET count == session_counts[sid].v
        last == session_last_check[sid].v IN
    /\ session_counts' = [session_counts EXCEPT ![sid] = Entry(@.v)]
    /\ IF count >= MAX_CHECKS_PER_SESSION
       THEN /\ last_op' = [op |-> "check", session |-> sid, allowed |-> FALSE]
            /\ UNCHANGED session_last_check
       ELSE /\ session_last_check' = [session_last_check EXCEPT ![sid] = Entry(@.v)]
            /\ last_op' = [op |-> "check", session |-> sid,
                           allowed |-> ~(last > 0 /\ clock - last < MIN_SECONDS_BETWEEN_CHECKS)]
    /\ UNCHANGED clock
    /\ LimiterFrame

\* RateLimiter.record, called directly after a check of the session that allowed
Record(sid) ==
    /\ last_op = [op |-> "check", session |-> sid, allowed |-> TRUE]
    /\ session_counts' = [session_counts EXCEPT ![sid] = Entry(@.v + 1)]
    /\ session_last_check' = [session_last_check EXCEPT ![sid] = Entry(clock)]
    /\ last_op' = [op |-> "record", session |-> sid, allowed |-> FALSE]
    /\ UNCHANGED clock
    /\ LimiterFrame

\* RateLimiter.reset
Reset(sid) ==
    /\ session_counts' = [session_counts EXCEPT ![sid] = NoEntry]
    /\ session_last_check' = [session_last_check EXCEPT ![sid] = NoEntry]
    /\ last_op' = [op |-> "reset", session |-> sid, allowed |-> FALSE]
    /\ UNCHANGED clock
    /\ LimiterFrame

\* what the session's own count and last check allow at this time
OwnAnswer(sid) ==
    /\ session_counts[sid].v < MAX_CHECKS_PER_SESSION
    /\ ~(/\ session_last_check[sid].v > 0
         /\ clock - session_last_check[sid].v < MIN_SECONDS_BETWEEN_CHECKS)

\* C38: when record(s) is only called directly after a check(s) that allowed,
\* the count of a session never exceeds MAX_CHECKS_PER_SESSION, check(s) does
\* not allow once the count has reached it, and an operation on one session
\* changes neither the entries of another session nor the answer given to it:
\* the answer of check(s) is the one the session's own entries give
C38_LimitPerSession ==
    [][/\ \A s \in Sessions : session_counts'[s].v <= MAX_CHECKS_PER_SESSION
       /\ \A s \in Sessions \ {last_op'.session} :
              /\ session_counts'[s] = session_counts[s]
              /\ session_last_check'[s] = session_last_check[s]
       /\ (last_op'.op = "check" /\ <<session_counts, last_op>>' # <<session_counts, last_op>>) =>
              /\ last_op'.allowed = OwnAnswer(last_op'.session)
              /\ session_counts[last_op'.session].v >= MAX_CHECKS_PER_SESSION
                     => ~last_op'.allowed]_vars

\* one session is at its limit and is refused while the other one is allowed
C38_OneSessionAtLimit ==
    /\ session_counts["s1"].v = MAX_CHECKS_PER_SESSION
    /\ session_counts["s2"].v > 0
    /\ last_op = [op |-> "check", session |-> "s2", allowed |-> TRUE]

\* ------------------------------------------------------------------------
\* on_message up to the first stage (SpecStart): the commands, the lookup of
\* the claim in the table, the prompt to reuse a stored result, and
\* decompose_claim.  "/history" and "/stats" are written "/h" and "/s".
\* ------------------------------------------------------------------------
History == <<"/", "h">>
Stats == <<"/", "s">>

\* what a user may send
Messages ==
    { <<>>, <<SP>>, History, <<"/", "H">>, <<SP, "/", "s">>,
      <<"a">>, <<"a", "?", "!">>, <<SP, "a", NL>>, <<"A", NL, SP, "B">>, <<"/", "a">> }

\* a row as store_fact_check writes it
StoredRow(n, c, r, now) ==
    [id |-> n, claim |-> c, claim_normalized |-> normalize_claim(c),
     result_json |-> ModelDumpJson(r), created_at |-> now, given |-> r]

\* a row written under another schema: its result_json does not validate
UnreadableRow(n, c, now) ==
    [id |-> n, claim |-> c, claim_normalized |-> normalize_claim(c),
     result_json |-> [o |-> "likely", p |-> 9, y |-> "y"], created_at |-> now, given |-> None]

\* the tables a message may meet
StartTables ==
    {<<>>}
    \cup {<<StoredRow(1, c, r, 0)>> : c \in {<<"A">>, <<"a", SP, "b">>}, r \in StoredResults}
    \cup {<<UnreadableRow(1, <<"a">>, 0)>>}
    \cup {<<StoredRow(1, <<"a">>, r, 0), UnreadableRow(2, <<"a", ".">>, 1)>> : r \in StoredResults}
    \cup {<<UnreadableRow(1, <<"a">>, 0), StoredRow(2, <<"A">>, r, 1)>> : r \in StoredResults}

StartInit ==
    /\ path = "chat"
    /\ wpc = "message"
    /\ claim = "claim"
    /\ decomposition = None
    /\ search_results = <<>>
    /\ sub_verdicts = <<>>
    /\ human_feedback = None
    /\ final_result = None
    /\ error = NoMessage
    /\ idx = 0
    /\ local_results = <<>>
    /\ local_verdicts = <<>>
    /\ api_key_set \in BOOLEAN
    /\ ran = <<>>
    /\ engine_calls = 0
    /\ search_calls = 0
    /\ decomp_call = NotCalled
    /\ eval_raised = {}
    /\ verdicts_json = <<>>
    /\ error_messages = 0
    /\ store_calls = 0
    /\ human_reviewed = NotStored
    /\ fact_checks \in StartTables
    /\ incoming \in Messages
    /\ looked_up = <<>>
    /\ exact_match = NotSearched
    /\ reuse_action = NotAsked

\* app.py line 388: exact_match and exact_match["result"]
HasReadableResult(match) == match # None /\ match.result # None

\* what the user may answer to the prompt; None after the timeout
ReuseAnswers == {"reuse", "recheck", NoAnswer}

\* lines 343-416 once the message, the lookup and the answer are known; reuses
\* says whether the stored result is shown and on_message returns
Handled(text, match, answer, reuses) ==
    /\ looked_up' = text
    /\ exact_match' = match
    /\ reuse_action' = answer
    /\ wpc' = IF reuses THEN "reused" ELSE "decompose"
    /\ UNCHANGED <<fact_checks, incoming>>
    /\ UNCHANGED <<path, fields, idx, local_results, local_verdicts, api_key_set,
                   ran, engine_calls, search_calls, decomp_call, eval_raised,
                   verdicts_json, error_messages, store_calls, human_reviewed>>
    /\ UNCHANGED <<outstanding, answers, sub_claim_feedback, lvars>>
    /\ UNCHANGED <<rvars, cvars, svars>>

\* lines 345-384: no claim was sent, or a command, which is answered
Answered(text) ==
    /\ wpc' = "answered"
    /\ looked_up' = text
    /\ UNCHANGED <<fact_checks, incoming, exact_match, reuse_action>>
    /\ UNCHANGED <<path, fields, idx, local_results, local_verdicts, api_key_set,
                   ran, engine_calls, search_calls, decomp_call, eval_raised,
                   verdicts_json, error_messages, store_calls, human_reviewed>>
    /\ UNCHANGED <<outstanding, answers, sub_claim_feedback, lvars>>
    /\ UNCHANGED <<rvars, cvars, svars>>

\* a handler that shows the stored result without regard to the answer
OnMessageReusesUnasked ==
    /\ wpc = "message"
    /\ LET text == Strip(incoming) IN
       IF text = <<>> \/ Lower(text) \in {History, Stats}
       THEN Answered(text)
       ELSE \E match \in find_exact_claim(fact_checks, text) :
                IF HasReadableResult(match)
                THEN \E answer \in ReuseAnswers : Handled(text, match, answer, TRUE)
                ELSE Handled(text, match, NotAsked, FALSE)

\* app.py on_message, lines 342-433: up to the start of the workflow
OnMessage ==
    /\ wpc = "message"
    /\ LET text == Strip(incoming) IN
       IF text = <<>> \/ Lower(text) \in {History, Stats}
       THEN Answered(text)
       ELSE \E match \in find_exact_claim(fact_checks, text) :
                IF HasReadableResult(match)
                THEN \E answer \in ReuseAnswers : Handled(text, match, answer, answer = "reuse")
                ELSE Handled(text, match, NotAsked, FALSE)

\* the message is a claim: not empty and not a command
IsClaim(m) == Strip(m) # <<>> /\ Lower(Strip(m)) \notin {History, Stats}

\* a stored check with a readable result was found and the user took it
ReuseChosen ==
    /\ exact_match # NotSearched
    /\ HasReadableResult(exact_match)
    /\ reuse_action = "reuse"

\* decompose_claim was called or is the next thing on_message does
WorkflowStarted == wpc = "decompose" \/ (ran # <<>> /\ ran[1] = "decompose")

\* C36: when the lookup of the incoming claim finds a stored check with a
\* readable result and the user chooses to reuse it, no stage runs, no engine
\* or provider call is made and nothing is stored; for every other claim the
\* workflow is started with Decompose; no step before that writes the table
C36_ReuseOrStart ==
    [][/\ fact_checks' = fact_checks
       /\ (wpc' # "message" /\ IsClaim(incoming)) =>
              IF ReuseChosen'
              THEN /\ wpc' = "reused"
                   /\ ran' = <<>>
                   /\ engine_calls' = 0
                   /\ search_calls' = 0
                   /\ store_calls' = 0
              ELSE WorkflowStarted']_vars

\* the user took the stored result of a claim that was stored in other words
C36_Reused ==
    /\ wpc = "reused"
    /\ ReuseChosen
    /\ exact_match.claim # looked_up

\* the user asked for a new check of a stored claim and Decompose has run
C36_RecheckStarted ==
    /\ reuse_action = "recheck"
    /\ ran = <<"decompose">>
    /\ engine_calls > 0

\* ------------------------------------------------------------------------
\* Properties of call_claude_structured (SpecCoerce)
\* ------------------------------------------------------------------------
LastAttempt == log[Len(log)]

\* C2: at most 1 + max_retries streams are opened; a call that returned
\* returned the record of the first attempt that succeeded, which is the last
\* stream it opened; a call that raised used every attempt and raised the
\* exception of the last one
C2_BoundedAttempts ==
    /\ calls <= 1 + max_retries
    /\ calls = Len(log) + (IF cpc = "streaming" THEN 1 ELSE 0)
    /\ \A i \in 1..Len(log) : log[i].ok => i = Len(log) /\ cpc = "returned"
    /\ cpc = "returned" =>
          /\ log # <<>>
          /\ LastAttempt.ok
          /\ result = AttemptOutcome(response_model, LastAttempt.text).value
    /\ cpc = "raised" =>
          /\ Len(log) = 1 + max_retries
          /\ \A i \in 1..Len(log) : ~log[i].ok
          /\ raised = LastAttempt.err

\* the third stream of a call with the default budget gave the record
C2_ReturnedOnThirdAttempt ==
    /\ cpc = "returned"
    /\ max_retries = DefaultMaxRetries
    /\ calls = 1 + DefaultMaxRetries
    /\ result # NoResult

\* the value model_validate was given in the last attempt
LastParsed ==
    ParseCandidate(JsonLoads(_extract_json(LastAttempt.text)),
                   _repair_json(_extract_json(LastAttempt.text)))

\* C3: an attempt that ends in a validation error is one attempt of the
\* budget like one that ends in a parse error: while budget remains another
\* attempt follows, without budget the call raises; and the value behind a
\* returned record always has the expected shape
C3_ShapeViolationIsFailure ==
    /\ \A i \in 1..Len(log) :
          log[i].err.kind \in {"ValidationError", "JSONDecodeError"} =>
              /\ ~log[i].ok
              /\ i <= calls
              /\ i <= max_retries => (calls > i \/ (cpc = "attempt" /\ attempt = i))
              /\ i = 1 + max_retries => cpc = "raised"
    /\ cpc = "returned" =>
          /\ LastParsed.ok
          /\ ShapeOk(response_model, LastParsed.val)

\* a validation error and a parse error were both retried, then a record came
C3_BothKindsRetried ==
    /\ cpc = "returned"
    /\ Len(log) = 3
    /\ log[1].err.kind = "ValidationError"
    /\ log[2].err.kind = "JSONDecodeError"

\* C4 as stated: the failure raised when the budget is exhausted carries the
\* raw buffer of the last attempt and the last parse or validation exception
C4_CarriesRawBuffer ==
    cpc = "raised" /\ raised.kind \in {"JSONDecodeError", "ValidationError"} =>
        /\ raised.has_doc
        /\ raised.doc = LastAttempt.text

\* C4 amended: the call raises the exception of the last attempt as it is;
\* only a parse exception carries text, and that text is the repaired
\* candidate, not the raw buffer
C4_RaisesLastException ==
    cpc = "raised" =>
        /\ Len(log) = 1 + max_retries
        /\ raised = LastAttempt.err
        /\ raised.kind \in {"JSONDecodeError", "ValidationError", "APIError",
                            "CallbackError"}
        /\ raised.has_doc <=> raised.kind = "JSONDecodeError"
        /\ raised.has_doc =>
               raised.doc = _repair_json(_extract_json(LastAttempt.text))

\* the call raised a parse exception whose text is not the raw buffer
C4_RaisedRepairedText ==
    /\ cpc = "raised"
    /\ raised.kind = "JSONDecodeError"
    /\ raised.doc # LastAttempt.text
    /\ log[1].err.kind = "ValidationError"

\* C9: a call ends as the same responses end it without a callback: same
\* record or same exception, after the same number of streams
C9_ObserverHasNoEffect ==
    cpc \in {"returned", "raised"} =>
        /\ CallClaudeStructured(response_model, script, max_retries).status = cpc
        /\ CallClaudeStructured(response_model, script, max_retries).calls = calls
        /\ CallClaudeStructured(response_model, script, max_retries).value = result
        /\ CallClaudeStructured(response_model, script, max_retries).err = raised

\* the stream of the current attempt has ended without an exception
StreamHasEnded ==
    /\ cpc = "streaming"
    /\ tpos = Len(CurrentResponse.tokens)
    /\ ~CurrentResponse.fails

\* json.loads(json_text) of line 299
DirectParse == JsonLoads(_extract_json(accumulated))

\* C26: when the text extracted from the buffer parses as it stands, the
\* value validated is the parse of that text: the call returns the instance
\* built from it, or fails with the validation error of it, and no repair
\* step has touched the text
C26_RepairOnlyAfterParseFailure ==
    [][(StreamHasEnded /\ DirectParse.ok) =>
           IF ShapeOk(response_model, DirectParse.val)
           THEN /\ cpc' = "returned"
                /\ result' = InstanceOf(response_model, DirectParse.val)
           ELSE /\ cpc' \in {"attempt", "raised"}
                /\ log'[Len(log')].err = ValidationError]_vars

\* a record whose reasoning holds a comma before a brace was returned as sent
C26_CommaInStringReturned ==
    /\ cpc = "returned"
    /\ response_model = "SubClaimVerdict"
    /\ result.reasoning = <<"x", CM, RB>>
    /\ _repair_json(_extract_json(accumulated)) # _extract_json(accumulated)

\* ------------------------------------------------------------------------
\* Specifications
\* ------------------------------------------------------------------------
RepairIdle ==
    /\ base = <<>> /\ buf = <<>> /\ role = <<>> /\ kinds = {} /\ ndefects = 0
    /\ rstage = "idle" /\ out1 = <<>> /\ out2 = <<>>

CoerceIdle ==
    /\ response_model = "none" /\ max_retries = 0 /\ on_token = FALSE
    /\ script = <<>> /\ attempt = 0 /\ cpc = "idle" /\ messages = "none"
    /\ accumulated = <<>> /\ tpos = 0 /\ observed = 0 /\ calls = 0
    /\ last_error = NoError /\ result = NoResult /\ raised = NoError /\ log = <<>>

WorkflowIdle ==
    /\ path = "none" /\ wpc = "idle" /\ claim = "" /\ decomposition = None
    /\ search_results = <<>> /\ sub_verdicts = <<>> /\ human_feedback = None
    /\ final_result = None /\ error = NoMessage /\ idx = 0 /\ local_results = <<>>
    /\ local_verdicts = <<>> /\ api_key_set = FALSE /\ ran = <<>>
    /\ engine_calls = 0 /\ search_calls = 0 /\ decomp_call = NotCalled
    /\ eval_raised = {}
    /\ verdicts_json = <<>>
    /\ error_messages = 0 /\ store_calls = 0 /\ human_reviewed = NotStored

SearchIdle ==
    /\ queries = <<>> /\ provider = <<>> /\ qi = 0 /\ all_results = <<>>
    /\ seen_urls = {} /\ spc = "idle"

\* an empty table that was not searched
TableIdle ==
    /\ fact_checks = <<>>
    /\ looked_up = <<>>
    /\ exact_match = NotSearched
    /\ incoming = <<>>
    /\ reuse_action = NotAsked

ServicesIdle ==
    /\ outstanding = {}
    /\ answers = <<>>
    /\ sub_claim_feedback = <<>>
    /\ TableIdle
    /\ LimiterInit

\* the workflow of one claim check
Init == WorkflowInit /\ RepairIdle /\ CoerceIdle /\ SearchIdle /\ ServicesIdle

Next ==
    \/ ReuseStored
    \/ Decompose
    \/ RetrieveEnter
    \/ RetrieveStep
    \/ RetrieveReturn
    \/ EvaluateEnter
    \/ EvaluateStep
    \/ EvaluateReturn
    \/ ReviewDeclined
    \/ ReviewCollected
    \/ Synthesize
    \/ StreamSummary
    \/ StoreResult

Spec == Init /\ [][Next]_vars

\* _extract_json on one buffer
InitExtract == ExtractInit /\ CoerceIdle /\ WorkflowIdle /\ SearchIdle /\ ServicesIdle

NextExtract == ExtractCandidate

SpecExtract == InitExtract /\ [][NextExtract]_vars

\* the external calls of one claim check
InitCalls ==
    WorkflowInit /\ api_key_set /\ RepairIdle /\ CoerceIdle /\ SearchIdle /\ ServicesIdle

NextCalls ==
    \/ OpenDecompose
    \/ DecomposeStreamEnds
    \/ EnterRetrieve
    \/ IssueSearch
    \/ SearchEnds
    \/ RetrieveReturns
    \/ EnterEvaluate
    \/ EvaluateWithoutCall
    \/ OpenEvaluate
    \/ EvaluateStreamEnds
    \/ EvaluateReturns
    \/ OpenSynthesize
    \/ SynthesizeStreamEnds
    \/ OpenSummary
    \/ SummaryEnds

SpecCalls == InitCalls /\ [][NextCalls]_vars

\* collect_human_feedback, prompt by prompt
InitReview ==
    /\ ReviewInit /\ RepairIdle /\ CoerceIdle /\ SearchIdle
    /\ outstanding = {} /\ answers = <<>> /\ sub_claim_feedback = <<>>
    /\ TableIdle
    /\ LimiterInit

NextReview ==
    \/ AskSubVerdict
    \/ ReturnFeedback

SpecReview == InitReview /\ [][NextReview]_vars

\* one call of call_claude_structured
InitCoerce == CoerceInit /\ RepairIdle /\ WorkflowIdle /\ SearchIdle /\ ServicesIdle

NextCoerce ==
    \/ OpenStream
    \/ StreamToken
    \/ CallbackRaises
    \/ StreamBreaks
    \/ StreamEnds

SpecCoerce == InitCoerce /\ [][NextCoerce]_vars

\* _repair_json on damaged records
InitRepair == RepairInit /\ CoerceIdle /\ WorkflowIdle /\ SearchIdle /\ ServicesIdle

NextRepair ==
    \/ UnescapedQuote
    \/ RawNewline
    \/ TrailingComma
    \/ MissingCloser
    \/ CutOff
    \/ ApplyRepair
    \/ ApplyRepairAgain

SpecRepair == InitRepair /\ [][NextRepair]_vars

\* synthesize_verdict called on a state that holds sub-verdicts and feedback
InitMerge == MergeInit /\ RepairIdle /\ CoerceIdle /\ SearchIdle /\ ServicesIdle

NextMerge ==
    \/ Synthesize
    \/ StreamSummary
    \/ StoreResult

SpecMerge == InitMerge /\ [][NextMerge]_vars

\* one call of search_evidence
InitSearch == SearchInit /\ RepairIdle /\ CoerceIdle /\ WorkflowIdle /\ ServicesIdle

NextSearch ==
    \/ QueryFails
    \/ QueryAnswered
    \/ SortResults

SpecSearch == InitSearch /\ [][NextSearch]_vars

\* the table under inserts and lookups
InitStore == WorkflowIdle /\ RepairIdle /\ CoerceIdle /\ SearchIdle /\ ServicesIdle

NextStore ==
    \/ StoreFactCheck
    \/ FindExactClaim

SpecStore == InitStore /\ [][NextStore]_vars

\* one message, up to the first stage
InitStart == StartInit /\ RepairIdle /\ CoerceIdle /\ SearchIdle
             /\ outstanding = {} /\ answers = <<>> /\ sub_claim_feedback = <<>>
             /\ LimiterInit

NextStart ==
    \/ OnMessage
    \/ Decompose

SpecStart == InitStart /\ [][NextStart]_vars

\* the limiter under operations on two sessions
InitLimiter == WorkflowIdle /\ RepairIdle /\ CoerceIdle /\ SearchIdle /\ ServicesIdle

NextLimiter ==
    \/ ClockTick
    \/ \E sid \in Sessions : Check(sid)
    \/ \E sid \in Sessions : Record(sid)
    \/ \E sid \in Sessions : Reset(sid)

SpecLimiter == InitLimiter /\ [][NextLimiter]_vars

====
